---- MODULE Spec2Model ----
(***************************************************************************)
(* Verification model of the KikuAI prepaid billing core.                  *)
(*                                                                         *)
(* Money is counted in integer units of the smallest amount the model      *)
(* uses (one unit stands for a fixed decimal amount such as $0.02).  The   *)
(* Redis balance store (api/services/balance_manager.py) is modelled from  *)
(* its Lua script; a script runs atomically inside Redis, so one script    *)
(* run is one step, and concurrency is the interleaving of the steps of    *)
(* several callers.                                                        *)
(***************************************************************************)
EXTENDS Integers, Sequences, FiniteSets, TLC

\* ------------------------------------------------------------------ bounds
MaxBalance == 2          \* balances are capped at this many units
MaxAmount == 1           \* |delta| of one balance mutation, in units
NumKeys == 2             \* idempotency keys callers can choose from
MaxTime == 7             \* clock readings and timestamps range over 0..MaxTime
MaxInvoices == 2         \* invoices the platform shows at a time
MaxRows == 3          \* rows of the key table once a prefix has repeated
MaxApplied == 2          \* the per-key count of applied mutations saturates here
MaxCents == 2000         \* the largest dollar amount converted, in cents
MaxTokens == 3           \* refresh tokens issued in a run

\* -------------------------------------------------------- program constants
\* LTRIM transactions_key -1000 -1: the list keeps the last 1000 entries
\* (scaled down so that trimming happens within the bounds).
HistoryLimit == 2
\* SETEX idempotency_key 604800: the marker lives 7 days (one tick of the
\* model's clock is 7 days).
IdempotencyTTL == 1

Users == {1, 2}
Procs == {1, 2}
\* Idempotency keys are tagged values: a key chosen by a direct caller is
\* <<"key", i>>; the keys the handlers build are defined with the handlers.
Keys == {<<"key", i>> : i \in 1..NumKeys}
NoKey == <<"none", 0>>

\* Card webhook events (fixtures, see PaddleEvent below).
EventIds == 1..6
\* idempotency_key = evt_<event_id> / refund_<event_id>
EvtKey(e) == <<"evt", e>>
RefundKey(e) == <<"refund", e>>

\* Wallet payments (telegram_payment_charge_id); the key of the credit is
\* the charge id.
ChargeIds == {1, 2}
\* The seconds in which invoices are created; only their equality matters.
Seconds == {0, 1}
\* payload = f"topup:{user_id}:{timestamp}"
Payload(u, t) == <<"topup", u, t>>
Payloads == {Payload(u, t) : u \in Users, t \in Seconds}
\* A payload that some other invoice of the bot could carry.
OtherPayload == <<"order", 1, 0>>
ChargeKey(c) == <<"charge", c>>

\* Lemon Squeezy orders (fixtures, see LsEvent below); the key of an order's
\* credit is the idempotency_key of its custom data.
LsEventIds == {1, 2, 3}
LsKey(e) == <<"ls", e>>

AllKeys ==
    Keys \cup {EvtKey(e) : e \in EventIds} \cup {RefundKey(e) : e \in EventIds}
         \cup {ChargeKey(c) : c \in ChargeIds} \cup {LsKey(e) : e \in LsEventIds}
Amounts == ((0 - MaxAmount)..MaxAmount) \ {0}
\* Client addresses (ip_address_var); NoIp when the context carries none.
Ips == {"10.0.0.1", "10.0.0.2"}
NoIp == ""
\* No request is being authenticated; no 401 has been answered.
NoAuth == [phase |-> "idle", ip |-> NoIp, x_api_key |-> <<>>, bearer |-> 0,
           status |-> 0, examined |-> FALSE, account |-> 0, scopes |-> {},
           required |-> "", failures |-> [ip \in Ips |-> 0]]
\* A provider HTTP request that has not been started.
NoHttp == [phase |-> "idle", responses |-> <<>>, sleeps |-> <<>>, wait |-> 0,
           code |-> ""]
NoUser == [exists |-> FALSE, balance_usd |-> 0]   \* GET user:<id> returned nil
UserRecord(b) == [exists |-> TRUE, balance_usd |-> b]

VARIABLES
    usage,           \* usage:<id>:<month>:<product> counters and the last track_usage outcome
    refresh_tokens,  \* _refresh_tokens: token hash -> stored token data
    rr,              \* the /refresh and /logout requests, and what has happened to each token
    auth_ttl,        \* auth_fail:<ip> -> remaining TTL in ticks, 0 = no expiry set
    conv,            \* the conversion being computed: input, stars, dollars
    api_key_index,   \* api_key:<key> -> the user id stored for the key, 0 = absent
    user_data,       \* user:<id> -> the stored user record, or NoUser
    transactions,    \* transactions:<id> -> the stored list
    idempotency,     \* idempotency:<key> -> remaining TTL in ticks, 0 = absent
    pc,              \* caller -> "idle" | "pending" | "done"
    req,             \* caller -> arguments of the call in progress
    res,             \* caller -> outcome of the call
    applied,         \* key -> how many mutations were applied under it
    initial,         \* user -> balance when the callers started
    pending_stars,   \* pending_stars:<payload> -> the stored entry, NoPending = absent
    tg,              \* the payment platform: invoices shown, the last pre-checkout
                     \* answer, the charges made
    stars_processed, \* stars_processed:<charge_id> -> remaining TTL in ticks, 0 = absent
    ls,              \* the Lemon Squeezy event being processed, and the outcome
    api_keys,        \* the APIKey table: the committed rows
    audit_log,       \* the AuditLog table: the committed entries
    api_prefix,      \* api_prefix:<prefix> -> the cached key data, or NoCached
    kc,              \* caller -> the AccountService call in progress
    ledger,          \* the PostgreSQL ledger: balances, transactions, usage logs
    http,            \* one provider HTTP request: attempts, responses, sleeps, result
    auth_fail,       \* auth_fail:<ip> -> the counter of the window, 0 = absent
    auth,            \* the request being authenticated, and the 401s answered per ip
    wh,              \* the card webhook request in flight, and its response
    ctx,             \* caller -> the request a handler is serving, and its response
    vw               \* one verify_webhook call: its arguments and its result

storeVars == <<user_data, transactions, idempotency>>
callVars == <<pc, req, res>>
ghostVars == <<applied, initial>>
handlerVars == <<ctx, wh>>
verifyVars == <<vw>>
walletVars == <<pending_stars, stars_processed, tg>>
lemonVars == <<ls>>
tableVars == <<api_keys, audit_log>>
keyVars == <<tableVars, api_prefix, kc>>
ledgerVars == <<ledger>>
auxVars == <<http, auth_fail, auth>>
extraVars == <<usage, refresh_tokens, rr, auth_ttl, conv, api_key_index>>
sideVars == <<ls, tableVars, api_prefix, kc, ledger, auxVars>>
vars == <<user_data, transactions, idempotency, pc, req, res, applied, initial,
          pending_stars, stars_processed, tg, ls, api_keys, api_prefix, kc, ledger, http,
          auth_fail, auth, audit_log, usage, refresh_tokens, rr, auth_ttl, conv, api_key_index,
          ctx, wh, vw>>

NoReq == [user |-> 0, amount |-> 0, key |-> NoKey, type |-> "none"]
NoRes == [status |-> "none", balance |-> 0, required |-> 0]
NoCtx == [kind |-> "none", charge |-> 0, user |-> 0, payload |-> <<>>, stars |-> 0,
          usd |-> 0, outcome |-> "none", new_balance |-> 0]
NoPending == [user_id |-> 0, stars |-> 0, usd |-> 0]
NoAnswer == [payload |-> <<>>, stars |-> 0, user |-> 0, ok |-> FALSE, error_message |-> ""]
NoCharge == [user |-> 0, payload |-> <<>>, stars |-> 0]
NoTg == [invoices |-> {}, answer |-> NoAnswer, charges |-> [c \in ChargeIds |-> NoCharge]]
NoVw == [sig |-> <<>>, body |-> <<"body", 0>>, now |-> 0, result |-> "none"]

NoResponse == [code |-> 0, status |-> "", message |-> ""]
NoWh == [phase |-> "none", event |-> 0, sig |-> <<>>, now |-> 0,
         json_ok |-> TRUE, response |-> NoResponse]

\* HMAC-SHA256 as an injective function of key and message; a hex digest is
\* the value itself, and Flip changes one byte of a digest.
Hmac(secret, msg) == [key |-> secret, msg |-> msg, intact |-> TRUE]
Flip(digest) == [digest EXCEPT !.intact = FALSE]
NoHash == [key |-> "", msg |-> <<>>, intact |-> FALSE]

NoLs == [phase |-> "none", event |-> 0, signature |-> [prefixed |-> FALSE, hex |-> NoHash],
         outcome |-> "none", secret_set |-> TRUE, has_balance_service |-> TRUE]

\* Key prefixes: secrets.token_hex(6), 12 hex characters, scaled to one.
HexChars == {"a", "7"}
Prefixes == {<<c>> : c \in HexChars}
NoCached == [present |-> FALSE, account_id |-> 0, scopes |-> {}, key_hash |-> NoHash]
\* No usage has been tracked.
NoUsage == [counter |-> [u \in Users |-> 0],
            outcome |-> [status |-> "none", telegram_id |-> 0, product_id |-> "",
                         units |-> 0, cost |-> 0, key |-> <<"none", 0>>]]
\* Refresh tokens and what the process-wide map holds for a hash.
\* Token 0 was never issued (a guess); tokens 1..MaxTokens are issued in
\* this order.  expires_in counts the ticks left until expires_at.
Forged == 0
Tokens == 0..MaxTokens
\* AuthService.hash_refresh_token: a digest, injective on the tokens.
hash_refresh_token(token) == <<"sha256", token>>
TokenHashes == {hash_refresh_token(t) : t \in Tokens}
NoToken == [present |-> FALSE, account_id |-> 0, expires_in |-> 0]
NoTokens == [h \in TokenHashes |-> NoToken]
\* No request; and nothing issued, refreshed or retired yet (a token is
\* retired once a refresh or a logout has deleted or replaced it).
NoRr == [op |-> "none", phase |-> "idle", token |-> 0, token_data |-> NoToken,
         status |-> 0, new_token |-> 0, account_found |-> TRUE,
         was_retired |-> FALSE, was_valid |-> FALSE]
NoRrs == [call |-> [p \in Procs |-> NoRr], issued |-> 0,
          succeeded |-> [t \in Tokens |-> 0], retired |-> [t \in Tokens |-> FALSE]]
\* Legacy API keys (kikuai_<token>): user u holds key u before the callers
\* start, caller p generates the p-th key after those.
ApiKeyIds == 1..(Cardinality(Users) + Cardinality(Procs))
NoApiKey == 0
\* No conversion has been asked for; NoValue stands for an absent number.
NoValue == 0 - 1
NoConv == [phase |-> "none", x |-> NoValue, stars |-> NoValue, usd |-> NoValue]
\* The ledger before any account has been credited.
NoLedger == [balance |-> [u \in Users |-> 0],
             transactions |-> [u \in Users |-> <<>>],
             usage_logs |-> [u \in Users |-> <<>>]]

\* Key secrets: secrets.token_urlsafe(32), 43 characters of the url-safe
\* base64 alphabet (letters, digits, '-' and '_'), scaled to one character
\* out of a letter and the underscore.
SecretChars == {"x", "_"}
KeySecrets == {<<c>> : c \in SecretChars}
ScopeSets == {{}, {"read"}}
NoRow == [key_prefix |-> <<>>, key_hash |-> NoHash, account_id |-> 0, scopes |-> {},
          is_active |-> FALSE]
NoAccount == [account |-> 0, scopes |-> {}]          \* (None, [])
\* An exception leaves the call.
Raised == [raised |-> TRUE]
\* raw_key .. row are the call's own values; key_prefix, key_secret, was_active
\* and was_revoked record which key the caller presented and, when the call
\* started, whether create_api_key had returned it and whether revoke_key had
\* returned for it.
NoKc == [op |-> "none", raw_key |-> <<>>, account_id |-> 0, prefix |-> <<>>,
         secret |-> <<>>, scopes |-> {}, row |-> NoRow, result |-> NoAccount,
         key_prefix |-> <<>>, key_secret |-> <<>>,
         was_active |-> FALSE, was_revoked |-> FALSE]

\* ------------------------------------------- RedisBalanceManager (pure parts)

\* (mutation) the balance as read before the callers started, not inside
\* the script
CurrentBalanceMutPreRead(ud, u) == initial[u]

\* current_balance of the Lua script: 0.0 when the user record is missing.
CurrentBalance(ud, u) == IF ud[u].exists THEN ud[u].balance_usd ELSE 0

\* get_balance: Decimal("0.00") for a missing record, else balance_usd.
get_balance(u) == IF ~user_data[u].exists THEN 0 ELSE user_data[u].balance_usd

\* (mutation) any marker counts, whatever its key
KeyExistsMutAnyKey(idem, k) == \E k2 \in DOMAIN idem : idem[k2] > 0

\* redis.call('EXISTS', idempotency_key) == 1
KeyExists(idem, k) == idem[k] > 0

\* check_idempotency: {"processed": True} when the marker exists, else None.
check_idempotency(k) == KeyExists(idempotency, k)

\* (mutation) the negative-balance guard is missing
InsufficientMutNoGuard(amount, new_balance) == FALSE

\* if amount < 0 and new_balance < 0 then return insufficient_balance
Insufficient(amount, new_balance) == amount < 0 /\ new_balance < 0

\* RPUSH followed by LTRIM -1000 -1: keep the last HistoryLimit entries.
PushTrim(list, txn) ==
    LET l == Append(list, txn)
    IN  IF Len(l) > HistoryLimit
        THEN SubSeq(l, Len(l) - HistoryLimit + 1, Len(l))
        ELSE l

\* (mutation) the stored transaction does not carry the caller's type
TxnOfMutUntyped(r) == [amount_usd |-> r.amount, type |-> "usage"]

\* transaction.to_dict() as far as the model needs it
TxnOf(r) == [amount_usd |-> r.amount, type |-> r.type]

RECURSIVE SumAmounts(_)
SumAmounts(list) ==
    IF list = <<>> THEN 0
    ELSE Head(list).amount_usd + SumAmounts(Tail(list))

\* The callers of this specification credit as TOPUP and debit as USAGE.
TypeFor(amount) == IF amount > 0 THEN "topup" ELSE "usage"

\* ------------------------------------------------------------------ actions

\* A caller starts update_balance(user_id, amount, transaction, key).
Invoke(p) ==
    /\ pc[p] = "idle"
    /\ \E u \in Users, a \in Amounts, k \in Keys :
            req' = [req EXCEPT ![p] = [user |-> u, amount |-> a, key |-> k,
                                       type |-> TypeFor(a)]]
    /\ pc' = [pc EXCEPT ![p] = "pending"]
    /\ UNCHANGED <<res, storeVars, ghostVars, handlerVars, verifyVars, extraVars, sideVars, walletVars>>

\* The three ways the Lua script ends.
ScriptStatus(r) ==
    IF KeyExists(idempotency, r.key) THEN "duplicate_payment"
    ELSE IF Insufficient(r.amount, CurrentBalance(user_data, r.user) + r.amount)
    THEN "insufficient_balance"
    ELSE "ok"

\* (mutation) the error carries the signed amount as the required sum
ScriptResultMutSignedRequired(r) ==
    LET cur == CurrentBalance(user_data, r.user)
    IN  CASE ScriptStatus(r) = "duplicate_payment" ->
               [status |-> "duplicate_payment", balance |-> 0, required |-> 0]
          [] ScriptStatus(r) = "insufficient_balance" ->
               [status |-> "insufficient_balance", balance |-> cur,
                required |-> r.amount]
          [] OTHER ->
               [status |-> "ok", balance |-> cur + r.amount, required |-> 0]

\* What update_balance returns or raises for the script's reply:
\* DuplicatePaymentError(key), InsufficientBalanceError(current, -amount),
\* or the new balance.
ScriptResult(r) ==
    LET cur == CurrentBalance(user_data, r.user)
    IN  CASE ScriptStatus(r) = "duplicate_payment" ->
               [status |-> "duplicate_payment", balance |-> 0, required |-> 0]
          [] ScriptStatus(r) = "insufficient_balance" ->
               [status |-> "insufficient_balance", balance |-> cur,
                required |-> 0 - r.amount]
          [] OTHER ->
               [status |-> "ok", balance |-> cur + r.amount, required |-> 0]

\* (mutation) a refused debit leaves its marker behind
MarkersAfterRefusalMutConsumed(r) ==
    IF ScriptStatus(r) = "insufficient_balance"
    THEN [idempotency EXCEPT ![r.key] = IdempotencyTTL]
    ELSE idempotency

\* The script returns its error before the SETEX: the markers stay as they
\* are.
MarkersAfterRefusal(r) == idempotency

\* One run of the Lua script on the store, for the call r, with the
\* transaction_json the caller passes (ARGV[2], stored as it is).
EvalScript(r, transaction_json) ==
    IF ScriptStatus(r) = "ok"
    THEN LET new == CurrentBalance(user_data, r.user) + r.amount
         IN  /\ new <= MaxBalance
             /\ user_data' = [user_data EXCEPT ![r.user] =
                                 IF @.exists THEN [@ EXCEPT !.balance_usd = new]
                                 ELSE UserRecord(new)]
             /\ transactions' = [transactions EXCEPT
                                   ![r.user] = PushTrim(@, transaction_json)]
             /\ idempotency' = [idempotency EXCEPT ![r.key] = IdempotencyTTL]
             /\ applied' = [applied EXCEPT
                              ![r.key] = IF @ < MaxApplied THEN @ + 1 ELSE @]
    ELSE /\ idempotency' = MarkersAfterRefusal(r)
         /\ UNCHANGED <<user_data, transactions, applied>>

\* One run of the Lua script on the store, for the call r.
ApplyScript(r) == EvalScript(r, TxnOf(r))

\* update_balance: one run of the script and the mapping of its reply to
\* the returned balance or the raised error.
update_balance(p) ==
    /\ pc[p] = "pending"
    /\ ApplyScript(req[p])
    /\ res' = [res EXCEPT ![p] = ScriptResult(req[p])]
    /\ pc' = [pc EXCEPT ![p] = "done"]
    /\ UNCHANGED <<req, initial, handlerVars, verifyVars, extraVars, sideVars, walletVars>>

\* The caller has consumed the outcome and may call again.
Return(p) ==
    /\ pc[p] = "done"
    /\ pc' = [pc EXCEPT ![p] = "idle"]
    /\ req' = [req EXCEPT ![p] = NoReq]
    /\ res' = [res EXCEPT ![p] = NoRes]
    /\ ctx' = [ctx EXCEPT ![p] = NoCtx]
    /\ UNCHANGED <<storeVars, ghostVars, verifyVars, extraVars, sideVars, walletVars, wh>>

\* Time passes between requests: every key stored with SETEX loses one tick
\* of its TTL and disappears when the TTL is used up; a pending wallet
\* payment (TTL one hour) is gone after one tick.  A request finishes well
\* within one tick, so no call is in flight across a tick.
Tick ==
    /\ \A p \in Procs : pc[p] \in {"idle", "done"}
    /\ wh.phase # "received"
    /\ \/ \E k \in AllKeys : idempotency[k] > 0
       \/ \E c \in ChargeIds : stars_processed[c] > 0
       \/ \E pl \in Payloads : pending_stars[pl] # NoPending
       \/ \E x \in Prefixes : api_prefix[x].present
    /\ idempotency' = [k \in AllKeys |->
                         IF idempotency[k] > 0 THEN idempotency[k] - 1 ELSE 0]
    /\ stars_processed' = [c \in ChargeIds |->
                         IF stars_processed[c] > 0 THEN stars_processed[c] - 1 ELSE 0]
    /\ pending_stars' = [pl \in Payloads |-> NoPending]
    /\ tg' = [tg EXCEPT !.answer = NoAnswer]
    /\ api_prefix' = [x \in Prefixes |-> NoCached]
    /\ UNCHANGED <<user_data, transactions, callVars, ghostVars, handlerVars, verifyVars, extraVars,
                   ls, tableVars, kc, ledger, auxVars>>

Init ==
    /\ user_data = [u \in Users |-> NoUser]
    /\ transactions = [u \in Users |-> <<>>]
    /\ idempotency = [k \in AllKeys |-> 0]
    /\ pc = [p \in Procs |-> "idle"]
    /\ req = [p \in Procs |-> NoReq]
    /\ res = [p \in Procs |-> NoRes]
    /\ applied = [k \in AllKeys |-> 0]
    /\ initial = [u \in Users |-> 0]
    /\ ctx = [p \in Procs |-> NoCtx]
    /\ wh = NoWh
    /\ pending_stars = [pl \in Payloads |-> NoPending]
    /\ tg = NoTg
    /\ stars_processed = [c \in ChargeIds |-> 0]
    /\ vw = NoVw
    /\ ls = NoLs
    /\ api_keys = {}
    /\ audit_log = {}
    /\ api_prefix = [x \in Prefixes |-> NoCached]
    /\ kc = [p \in Procs |-> NoKc]
    /\ ledger = NoLedger
    /\ http = NoHttp
    /\ auth_fail = [ip \in Ips |-> 0]
    /\ auth = NoAuth
    /\ usage = NoUsage
    /\ refresh_tokens = NoTokens
    /\ rr = NoRrs
    /\ auth_ttl = [ip \in Ips |-> 0]
    /\ conv = NoConv
    /\ api_key_index = [x \in ApiKeyIds |-> 0]

Next ==
    \/ \E p \in Procs : Invoke(p)
    \/ \E p \in Procs : update_balance(p)
    \/ \E p \in Procs : Return(p)
    \/ Tick

Spec == Init /\ [][Next]_vars

\* ------------------------------------- one caller retries, no key expires
\* The outcome of one caller stays on record while the other calls again
\* and again, all within the lifetime of the markers.
Retrier == CHOOSE p \in Procs : TRUE

NextRetry ==
    \/ \E p \in Procs : Invoke(p)
    \/ \E p \in Procs : update_balance(p)
    \/ Return(Retrier)

SpecRetry == Init /\ [][NextRetry]_vars

\* --------------------------------------------- two callers, one call each
\* The stored list after b unit top-ups (what the store holds for a balance
\* of b units that was built up before the two callers start).
SeedHistory(b) ==
    [i \in 1..(IF b < HistoryLimit THEN b ELSE HistoryLimit) |->
        [amount_usd |-> 1, type |-> "topup"]]

InitPair ==
    /\ \E b \in [Users -> 0..MaxBalance] :
         /\ initial = b
         /\ user_data = [u \in Users |-> IF b[u] = 0 THEN NoUser ELSE UserRecord(b[u])]
         /\ transactions = [u \in Users |-> SeedHistory(b[u])]
    /\ idempotency = [k \in AllKeys |-> 0]
    /\ pc = [p \in Procs |-> "idle"]
    /\ req = [p \in Procs |-> NoReq]
    /\ res = [p \in Procs |-> NoRes]
    /\ applied = [k \in AllKeys |-> 0]
    /\ ctx = [p \in Procs |-> NoCtx]
    /\ wh = NoWh
    /\ pending_stars = [pl \in Payloads |-> NoPending]
    /\ tg = NoTg
    /\ stars_processed = [c \in ChargeIds |-> 0]
    /\ vw = NoVw
    /\ ls = NoLs
    /\ api_keys = {}
    /\ audit_log = {}
    /\ api_prefix = [x \in Prefixes |-> NoCached]
    /\ kc = [p \in Procs |-> NoKc]
    /\ ledger = NoLedger
    /\ http = NoHttp
    /\ auth_fail = [ip \in Ips |-> 0]
    /\ auth = NoAuth
    /\ usage = NoUsage
    /\ refresh_tokens = NoTokens
    /\ rr = NoRrs
    /\ auth_ttl = [ip \in Ips |-> 0]
    /\ conv = NoConv
    /\ api_key_index = [x \in ApiKeyIds |-> 0]

NextPair ==
    \/ \E p \in Procs : Invoke(p)
    \/ \E p \in Procs : update_balance(p)
    \/ Tick

SpecPair == InitPair /\ [][NextPair]_vars

\* ------------------------------------------------- card provider adapter
\* The adapter and the payment engine that drives it are specified in the
\* design (4.3, 4.4) and exercised by tests/test_paddle_provider.py; the
\* route that answers the provider is api/routes/webhooks.py.

WebhookSecret == "test_webhook_secret"
Secrets == {WebhookSecret, "wrong_secret"}
\* Replay window of 5 minutes; the clock of the model counts minutes.
ReplayWindow == 5
Times == 0..MaxTime
Bodies == {<<"body", 1>>, <<"body", 2>>}

\* signed_payload = f"{timestamp}:{raw_body}"
SignedPayload(ts, body) == <<ts, ":", body>>

\* f"ts={timestamp};h1={signature}" as the list of its name=value parts
create_signed_webhook(secret, ts, body) ==
    << <<"ts", ts>>, <<"h1", Hmac(secret, SignedPayload(ts, body))>> >>

\* Parsing "name=value;name=value": is there a part with this name, and
\* the value of the first such part.
HasPart(sig, name) == \E i \in 1..Len(sig) : sig[i][1] = name
PartValue(sig, name) ==
    sig[CHOOSE i \in 1..Len(sig) :
            /\ sig[i][1] = name
            /\ \A j \in 1..(i - 1) : sig[j][1] # name][2]

Abs(x) == IF x < 0 THEN 0 - x ELSE x

\* (mutation) the age of the timestamp is not checked
verify_webhookMutNoWindow(sig, body, now) ==
    /\ HasPart(sig, "ts")
    /\ HasPart(sig, "h1")
    /\ PartValue(sig, "h1")
         = Hmac(WebhookSecret, <<PartValue(sig, "ts"), ":", body>>)

\* verify_webhook of the card adapter: ts and h1 both required, timestamp
\* within the replay window, h1 equal to the recomputed HMAC over
\* <ts> ":" <raw body>.
verify_webhook(sig, body, now) ==
    /\ HasPart(sig, "ts")
    /\ HasPart(sig, "h1")
    /\ Abs(now - PartValue(sig, "ts")) <= ReplayWindow
    /\ PartValue(sig, "h1")
         = Hmac(WebhookSecret, <<PartValue(sig, "ts"), ":", body>>)

\* The signature headers the model feeds to verify_webhook: with or without
\* each part, the digest made with either secret, for the header's timestamp
\* or another one, for this body or another one, intact or with a byte
\* flipped.
Headers ==
    LET digests == {Hmac(sec, <<t, ":", b>>) :
                        sec \in Secrets, t \in Times, b \in Bodies}
        h1s == digests \cup {Flip(d) : d \in digests}
    IN  {<<>>}
        \cup {<< <<"ts", t>> >> : t \in Times}
        \cup {<< <<"h1", d>> >> : d \in h1s}
        \cup {<< <<"ts", t>>, <<"h1", d>> >> : t \in Times, d \in h1s}

\* One call of verify_webhook on an arbitrary header, body and clock.
InitVerify ==
    /\ user_data = [u \in Users |-> NoUser]
    /\ transactions = [u \in Users |-> <<>>]
    /\ idempotency = [k \in AllKeys |-> 0]
    /\ pc = [p \in Procs |-> "idle"]
    /\ req = [p \in Procs |-> NoReq]
    /\ res = [p \in Procs |-> NoRes]
    /\ applied = [k \in AllKeys |-> 0]
    /\ initial = [u \in Users |-> 0]
    /\ ctx = [p \in Procs |-> NoCtx]
    /\ wh = NoWh
    /\ pending_stars = [pl \in Payloads |-> NoPending]
    /\ tg = NoTg
    /\ stars_processed = [c \in ChargeIds |-> 0]
    /\ \E h \in Headers, b \in Bodies, n \in Times :
         vw = [sig |-> h, body |-> b, now |-> n, result |-> "none"]
    /\ ls = NoLs
    /\ api_keys = {}
    /\ audit_log = {}
    /\ api_prefix = [x \in Prefixes |-> NoCached]
    /\ kc = [p \in Procs |-> NoKc]
    /\ ledger = NoLedger
    /\ http = NoHttp
    /\ auth_fail = [ip \in Ips |-> 0]
    /\ auth = NoAuth
    /\ usage = NoUsage
    /\ refresh_tokens = NoTokens
    /\ rr = NoRrs
    /\ auth_ttl = [ip \in Ips |-> 0]
    /\ conv = NoConv
    /\ api_key_index = [x \in ApiKeyIds |-> 0]

VerifyStep ==
    /\ vw.result = "none"
    /\ vw' = [vw EXCEPT !.result =
                 IF verify_webhook(vw.sig, vw.body, vw.now) THEN "true" ELSE "false"]
    /\ UNCHANGED <<storeVars, callVars, ghostVars, handlerVars, walletVars, sideVars,
                   extraVars>>

NextVerify == VerifyStep

SpecVerify == InitVerify /\ [][NextVerify]_vars

\* ----------------------------------------------------- card webhook route
\* The raw body of the provider's event e.
BodyOf(e) == <<"body", e>>

\* The provider's events the model delivers: what the parsed body carries.
\* account_ref 0 and custom_key NoKey stand for a missing field.
PaddleEvent(e) ==
    CASE e = 1 -> [event_type |-> "transaction.completed", account_ref |-> 1,
                   amount |-> 1, custom_key |-> <<"key", 1>>]
      [] e = 2 -> [event_type |-> "transaction.completed", account_ref |-> 1,
                   amount |-> 1, custom_key |-> NoKey]
      [] e = 3 -> [event_type |-> "transaction.refunded", account_ref |-> 1,
                   amount |-> 1, custom_key |-> NoKey]
      [] e = 4 -> [event_type |-> "transaction.payment_failed", account_ref |-> 1,
                   amount |-> 0, custom_key |-> NoKey]
      [] e = 5 -> [event_type |-> "subscription.created", account_ref |-> 1,
                   amount |-> 0, custom_key |-> NoKey]
      [] OTHER -> [event_type |-> "transaction.completed", account_ref |-> 0,
                   amount |-> 1, custom_key |-> NoKey]

\* Webhook dispatch of the card adapter: the balance mutation an event asks
\* for, NoReq when it asks for none.
PaddleRequest(e) ==
    LET ev == PaddleEvent(e)
    IN  IF ev.account_ref = 0 THEN NoReq
        ELSE IF ev.event_type = "transaction.completed"
        THEN [user |-> ev.account_ref, amount |-> ev.amount,
              key |-> IF ev.custom_key # NoKey THEN ev.custom_key ELSE EvtKey(e),
              type |-> "topup"]
        ELSE IF ev.event_type = "transaction.refunded"
        THEN [user |-> ev.account_ref, amount |-> 0 - ev.amount,
              key |-> RefundKey(e), type |-> "refund"]
        ELSE NoReq

\* process_webhook of the engine and the adapter: verification first, then
\* dispatch; a mutation the balance service reports as a duplicate is a
\* no-op, any other failure of the balance service is raised.
PaddleOutcome(w) ==
    IF ~verify_webhook(w.sig, BodyOf(w.event), w.now) THEN "invalid_signature"
    ELSE IF PaddleRequest(w.event) = NoReq THEN "none"
    ELSE IF ScriptStatus(PaddleRequest(w.event)) = "ok" THEN "transaction"
    ELSE IF ScriptStatus(PaddleRequest(w.event)) = "duplicate_payment" THEN "none"
    ELSE "error"

\* (mutation) a failed verification is answered with 401
PaddleResponseMutUnauthorized(outcome) ==
    CASE outcome = "invalid_json" -> [code |-> 400, status |-> "", message |-> "Invalid JSON payload"]
      [] outcome = "transaction" -> [code |-> 200, status |-> "processed", message |-> ""]
      [] outcome = "none" -> [code |-> 200, status |-> "ignored",
                              message |-> "Event already processed or not applicable"]
      [] outcome = "invalid_signature" -> [code |-> 401, status |-> "error",
                                           message |-> "Invalid signature"]
      [] OTHER -> [code |-> 500, status |-> "", message |-> "Processing error"]

\* (mutation) a webhook without a transaction is answered with 500
PaddleResponseMutNoneRetried(outcome) ==
    CASE outcome = "invalid_json" -> [code |-> 400, status |-> "", message |-> "Invalid JSON payload"]
      [] outcome = "transaction" -> [code |-> 200, status |-> "processed", message |-> ""]
      [] outcome = "invalid_signature" -> [code |-> 200, status |-> "error",
                                           message |-> "Invalid signature"]
      [] OTHER -> [code |-> 500, status |-> "", message |-> "Processing error"]

\* The route's answer for each way the processing can end.
PaddleResponse(outcome) ==
    CASE outcome = "invalid_json" -> [code |-> 400, status |-> "", message |-> "Invalid JSON payload"]
      [] outcome = "transaction" -> [code |-> 200, status |-> "processed", message |-> ""]
      [] outcome = "none" -> [code |-> 200, status |-> "ignored",
                              message |-> "Event already processed or not applicable"]
      [] outcome = "invalid_signature" -> [code |-> 200, status |-> "error",
                                           message |-> "Invalid signature"]
      [] OTHER -> [code |-> 500, status |-> "", message |-> "Processing error"]

\* The Paddle-Signature headers a delivery of body b may carry: signed with
\* the configured secret, signed with another secret, h1 with one byte
\* flipped, ts missing, and the signature of another body.
DeliveryHeaders(e) ==
    { create_signed_webhook(WebhookSecret, 0, BodyOf(e)),
      create_signed_webhook("wrong_secret", 0, BodyOf(e)),
      << <<"ts", 0>>, <<"h1", Flip(Hmac(WebhookSecret, SignedPayload(0, BodyOf(e))))>> >>,
      << <<"h1", Hmac(WebhookSecret, SignedPayload(0, BodyOf(e)))>> >>,
      create_signed_webhook(WebhookSecret, 0, BodyOf((e % 6) + 1)) }

\* The adapter's clock at a delivery whose header says ts = 0.
DeliveryTimes == {0, ReplayWindow, ReplayWindow + 1}

\* POST /webhooks/paddle arrives.
deliver_paddle ==
    /\ wh.phase = "none"
    /\ \E e \in EventIds, n \in DeliveryTimes, j \in BOOLEAN :
         \E h \in DeliveryHeaders(e) :
            wh' = [NoWh EXCEPT !.phase = "received", !.event = e, !.sig = h,
                               !.now = n, !.json_ok = j]
    /\ UNCHANGED <<storeVars, callVars, ghostVars, ctx, verifyVars, extraVars, sideVars, walletVars>>

handle_paddle_webhook ==
    /\ wh.phase = "received"
    /\ LET outcome == IF ~wh.json_ok THEN "invalid_json" ELSE PaddleOutcome(wh)
       IN  /\ IF outcome = "transaction"
              THEN ApplyScript(PaddleRequest(wh.event))
              ELSE UNCHANGED <<storeVars, applied>>
           /\ wh' = [wh EXCEPT !.phase = "done", !.response = PaddleResponse(outcome)]
    /\ UNCHANGED <<callVars, initial, ctx, verifyVars, extraVars, sideVars, walletVars>>

\* The response has been sent; the provider may deliver again.
respond_paddle ==
    /\ wh.phase = "done"
    /\ wh' = NoWh
    /\ UNCHANGED <<storeVars, callVars, ghostVars, ctx, verifyVars, extraVars, sideVars, walletVars>>

NextWebhook ==
    \/ deliver_paddle
    \/ handle_paddle_webhook
    \/ respond_paddle
    \/ Tick

\* Every event the model delivers names account 1: its balance is drawn, the
\* other account starts without a record.
InitWebhook ==
    /\ InitPair
    /\ initial[2] = 0

SpecWebhook == InitWebhook /\ [][NextWebhook]_vars

\* --------------------------------------------------------------- wallet
\* The Stars handlers of the bot, one step per round trip to the store, and
\* the payment platform between them.
\* usd = stars / 50
StarsPerUsd == 50
\* STARS_PACKAGES (50 stars per dollar), one package per amount a balance of
\* the model can hold
STARS_PACKAGES == {[stars |-> StarsPerUsd * a, usd |-> a] : a \in 1..MaxBalance}
\* total_amount of the payments the model delivers
StarsAmounts == {pkg.stars : pkg \in STARS_PACKAGES}
\* The marker of a processed charge is stored with SETEX 604800, 7 days.
ProcessedTTL == 1
stars_to_usd(stars) == stars \div StarsPerUsd

\* payload.startswith("topup:")
IsTopupPayload(payload) == payload[1] = "topup"

\* create_stars_invoice: the pending payment is stored under the payload and
\* the invoice is sent; when sending fails the stored entry stays.
create_stars_invoice(u, t) ==
    /\ \E pkg \in STARS_PACKAGES :
         LET payload == Payload(u, t)
             invoice == [payload |-> payload, stars |-> pkg.stars, usd |-> pkg.usd,
                         chat |-> u]
         IN  /\ Cardinality(tg.invoices \cup {invoice}) <= MaxInvoices
             /\ pending_stars' = [pending_stars EXCEPT ![payload] =
                                    [user_id |-> u, stars |-> pkg.stars, usd |-> pkg.usd]]
             /\ \/ tg' = [tg EXCEPT !.invoices = @ \cup {invoice}]
                \/ UNCHANGED tg
    /\ UNCHANGED <<storeVars, callVars, ghostVars, handlerVars, verifyVars, extraVars, sideVars,
                   stars_processed>>

\* (mutation) the payer is not compared with the entry's account
PreCheckoutAnswerMutNoUserCheck(payload, user_id) ==
    IF ~IsTopupPayload(payload)
    THEN [ok |-> FALSE, error_message |-> "Invalid payment. Please try again."]
    ELSE IF pending_stars[payload] = NoPending
    THEN [ok |-> FALSE,
          error_message |-> "Payment session expired. Please create a new payment."]
    ELSE [ok |-> TRUE, error_message |-> ""]

\* What process_pre_checkout answers for a payload and a paying user.
PreCheckoutAnswer(payload, user_id) ==
    IF ~IsTopupPayload(payload)
    THEN [ok |-> FALSE, error_message |-> "Invalid payment. Please try again."]
    ELSE IF pending_stars[payload] = NoPending
    THEN [ok |-> FALSE,
          error_message |-> "Payment session expired. Please create a new payment."]
    ELSE IF pending_stars[payload].user_id # user_id
    THEN [ok |-> FALSE, error_message |-> "Invalid payment. User mismatch."]
    ELSE [ok |-> TRUE, error_message |-> ""]

\* The pre-checkout queries the platform sends: for an invoice the bot has
\* shown, by any user, or for an invoice with another payload.
PreCheckoutQueries ==
    {[payload |-> inv.payload, stars |-> inv.stars] : inv \in tg.invoices}
        \cup {[payload |-> OtherPayload, stars |-> StarsPerUsd]}

process_pre_checkout ==
    /\ \E q \in PreCheckoutQueries, u \in Users :
         tg' = [tg EXCEPT !.answer =
                  [payload |-> q.payload, stars |-> q.stars, user |-> u,
                   ok |-> PreCheckoutAnswer(q.payload, u).ok,
                   error_message |-> PreCheckoutAnswer(q.payload, u).error_message]]
    /\ UNCHANGED <<storeVars, callVars, ghostVars, handlerVars, verifyVars, extraVars, sideVars,
                   pending_stars, stars_processed>>

\* The platform charges a user for an invoice: it does so only when the
\* bot approves the pre-checkout query it sends first.
pay ==
    /\ \E c \in ChargeIds, inv \in tg.invoices, u \in Users :
         /\ tg.charges[c] = NoCharge
         /\ PreCheckoutAnswer(inv.payload, u).ok
         /\ tg' = [tg EXCEPT !.answer = NoAnswer,
                             !.charges[c] = [user |-> u, payload |-> inv.payload,
                                             stars |-> inv.stars]]
    /\ UNCHANGED <<storeVars, callVars, ghostVars, handlerVars, verifyVars, extraVars, sideVars,
                   pending_stars, stars_processed>>

\* The credit the wallet adapter asks for: the pending payment's usd amount
\* when the entry is (still) stored, the amount computed from the stars
\* otherwise; the key of the credit is the charge id; no credit without a
\* user id.
StarsRequest(e) ==
    IF e.user = 0 THEN NoReq
    ELSE [user |-> e.user,
          amount |-> IF pending_stars[e.payload] # NoPending
                     THEN pending_stars[e.payload].usd
                     ELSE stars_to_usd(e.stars),
          key |-> ChargeKey(e.charge), type |-> "topup"]

\* The platform delivers the successful_payment message of a charge.
successful_payment(p) ==
    /\ pc[p] = "idle"
    /\ \E c \in ChargeIds :
         /\ tg.charges[c] # NoCharge
         /\ ctx' = [ctx EXCEPT ![p] = [NoCtx EXCEPT !.kind = "stars", !.charge = c,
                                         !.user = tg.charges[c].user,
                                         !.payload = tg.charges[c].payload,
                                         !.stars = tg.charges[c].stars]]
    /\ pc' = [pc EXCEPT ![p] = "stars_exists"]
    /\ UNCHANGED <<req, res, storeVars, ghostVars, wh, verifyVars, extraVars, sideVars, walletVars>>

\* redis_client.exists(processed_key)
AlreadyProcessed(processed, c) == processed[c] > 0

stars_exists(p) ==
    /\ pc[p] = "stars_exists"
    /\ IF AlreadyProcessed(stars_processed, ctx[p].charge)
       THEN /\ pc' = [pc EXCEPT ![p] = "done"]
            /\ ctx' = [ctx EXCEPT ![p].outcome = "already_processed"]
       ELSE /\ pc' = [pc EXCEPT ![p] = "stars_get"]
            /\ UNCHANGED ctx
    /\ UNCHANGED <<req, res, storeVars, ghostVars, wh, verifyVars, extraVars, sideVars, walletVars>>

\* pending_data = redis_client.get(pending_key)
stars_get(p) ==
    /\ pc[p] = "stars_get"
    /\ IF pending_stars[ctx[p].payload] # NoPending
       THEN /\ ctx' = [ctx EXCEPT ![p].usd = pending_stars[ctx[p].payload].usd]
            /\ pc' = [pc EXCEPT ![p] = "stars_delete"]
       ELSE /\ ctx' = [ctx EXCEPT ![p].usd = stars_to_usd(ctx[p].stars)]
            /\ pc' = [pc EXCEPT ![p] = "stars_engine"]
    /\ UNCHANGED <<req, res, storeVars, ghostVars, wh, verifyVars, extraVars, sideVars, walletVars>>

\* redis_client.delete(pending_key)
stars_delete(p) ==
    /\ pc[p] = "stars_delete"
    /\ pending_stars' = [pending_stars EXCEPT ![ctx[p].payload] = NoPending]
    /\ pc' = [pc EXCEPT ![p] = "stars_engine"]
    /\ UNCHANGED <<req, res, storeVars, ghostVars, handlerVars, verifyVars, extraVars, sideVars,
                   stars_processed, tg>>

\* transaction = await engine.process_webhook(event): the credit is applied,
\* or the balance service reports a duplicate and there is no transaction.
stars_engine(p) ==
    /\ pc[p] = "stars_engine"
    /\ LET r == StarsRequest(ctx[p])
       IN  IF r # NoReq /\ ScriptStatus(r) = "ok"
           THEN /\ ApplyScript(r)
                /\ pc' = [pc EXCEPT ![p] = "stars_setex"]
                /\ UNCHANGED ctx
           ELSE /\ UNCHANGED <<storeVars, applied>>
                /\ pc' = [pc EXCEPT ![p] = "done"]
                /\ ctx' = [ctx EXCEPT ![p].outcome = "processing_failed"]
    /\ UNCHANGED <<req, res, initial, wh, verifyVars, extraVars, sideVars, walletVars>>

\* redis_client.setex(processed_key, 604800, "1")
stars_setex(p) ==
    /\ pc[p] = "stars_setex"
    /\ stars_processed' = [stars_processed EXCEPT ![ctx[p].charge] = ProcessedTTL]
    /\ pc' = [pc EXCEPT ![p] = "stars_answer"]
    /\ UNCHANGED <<req, res, storeVars, ghostVars, handlerVars, verifyVars, extraVars, sideVars,
                   pending_stars, tg>>

\* new_balance = await balance_manager.get_balance(user_id); message.answer
stars_answer(p) ==
    /\ pc[p] = "stars_answer"
    /\ ctx' = [ctx EXCEPT ![p].outcome = "success",
                          ![p].new_balance = get_balance(ctx[p].user)]
    /\ pc' = [pc EXCEPT ![p] = "done"]
    /\ UNCHANGED <<req, res, storeVars, ghostVars, wh, verifyVars, extraVars, sideVars, walletVars>>

\* The completions of the invoices one account creates within one second.
WalletUser == CHOOSE u \in Users : TRUE
WalletSecond == CHOOSE t \in Seconds : TRUE

InitStars == Init

NextStars ==
    \/ create_stars_invoice(WalletUser, WalletSecond)
    \/ pay
    \/ \E p \in Procs : successful_payment(p)
    \/ \E p \in Procs : stars_exists(p)
    \/ \E p \in Procs : stars_get(p)
    \/ \E p \in Procs : stars_delete(p)
    \/ \E p \in Procs : stars_engine(p)
    \/ \E p \in Procs : stars_setex(p)
    \/ \E p \in Procs : stars_answer(p)
    \/ \E p \in Procs : Return(p)
    \/ Tick

SpecStars == InitStars /\ [][NextStars]_vars

\* The checkout of the wallet alone: invoices of every account, created
\* within one second, the pre-checkout queries of the platform, and the expiry
\* of the pending payments.
NextCheckout ==
    \/ \E u \in Users : create_stars_invoice(u, WalletSecond)
    \/ process_pre_checkout
    \/ Tick

SpecCheckout == Init /\ [][NextCheckout]_vars

\* ------------------------------------------------ Lemon Squeezy adapter
LsWebhookSecret == "ls_webhook_secret"

\* The orders the model delivers: what the parsed body carries.  user_id 0
\* stands for custom data without user_id.
LsEvent(e) ==
    CASE e = 1 -> [event_type |-> "order_created", user_id |-> 1, total |-> 1]
      [] e = 2 -> [event_type |-> "order_refunded", user_id |-> 1, total |-> 1]
      [] OTHER -> [event_type |-> "order_created", user_id |-> 0, total |-> 1]

\* provided = event.signature, with a leading "sha256=" cut off
StripPrefix(signature) == signature.hex

\* LemonSqueezyProvider.verify_webhook: false without a configured secret,
\* else the HMAC of the raw body under the secret against the header.
ls_verify_webhook(l) ==
    /\ l.secret_set
    /\ Hmac(LsWebhookSecret, BodyOf(l.event)) = StripPrefix(l.signature)

\* credit_balance(user_id, amount_usd, source, metadata) of the balance
\* service the adapter was built with.
LsRequest(e) ==
    [user |-> LsEvent(e).user_id, amount |-> LsEvent(e).total,
     key |-> LsKey(e), type |-> "topup"]

\* (mutation) the event is processed without verifying its signature
LsOutcomeMutNoVerify(l) ==
    IF LsEvent(l.event).event_type # "order_created" THEN "none"
    ELSE IF LsEvent(l.event).user_id = 0 THEN "none"
    ELSE IF ~l.has_balance_service THEN "transaction"
    ELSE IF ScriptStatus(LsRequest(l.event)) = "ok" THEN "credited"
    ELSE "error"

\* LemonSqueezyProvider.process_webhook: how the call ends.  "credited" is a
\* transaction returned by the balance service, "transaction" the record the
\* adapter builds itself when it has no balance service.
LsOutcome(l) ==
    IF ~ls_verify_webhook(l) THEN "invalid_signature"
    ELSE IF LsEvent(l.event).event_type # "order_created" THEN "none"
    ELSE IF LsEvent(l.event).user_id = 0 THEN "none"
    ELSE IF ~l.has_balance_service THEN "transaction"
    ELSE IF ScriptStatus(LsRequest(l.event)) = "ok" THEN "credited"
    ELSE "error"

\* The X-Signature headers a delivery of event e may carry.
LsSignatures(e) ==
    { [prefixed |-> b, hex |-> d] :
        b \in BOOLEAN,
        d \in { Hmac(LsWebhookSecret, BodyOf(e)),
                Hmac("wrong_secret", BodyOf(e)),
                Flip(Hmac(LsWebhookSecret, BodyOf(e))),
                Hmac(LsWebhookSecret, BodyOf((e % 3) + 1)) } }

\* A Lemon Squeezy event reaches the adapter.
ls_deliver ==
    /\ ls.phase = "none"
    /\ \E e \in LsEventIds : \E sg \in LsSignatures(e) :
         ls' = [ls EXCEPT !.phase = "received", !.event = e, !.signature = sg]
    /\ UNCHANGED <<storeVars, callVars, ghostVars, handlerVars, verifyVars, extraVars,
                   walletVars, keyVars, ledger,
                   auxVars>>

process_webhook ==
    /\ ls.phase = "received"
    /\ IF LsOutcome(ls) = "credited"
       THEN ApplyScript(LsRequest(ls.event))
       ELSE UNCHANGED <<storeVars, applied>>
    /\ ls' = [ls EXCEPT !.phase = "done", !.outcome = LsOutcome(ls)]
    /\ UNCHANGED <<callVars, initial, handlerVars, verifyVars, extraVars, walletVars, keyVars, ledger,
                   auxVars>>

\* The caller has the outcome; the provider may deliver again.
ls_return ==
    /\ ls.phase = "done"
    /\ ls' = [ls EXCEPT !.phase = "none", !.event = 0, !.outcome = "none",
                        !.signature = NoLs.signature]
    /\ UNCHANGED <<storeVars, callVars, ghostVars, handlerVars, verifyVars, extraVars,
                   walletVars, keyVars, ledger,
                   auxVars>>

InitLemon ==
    /\ \E b \in [Users -> 0..MaxBalance] :
         /\ initial = b
         /\ user_data = [u \in Users |-> IF b[u] = 0 THEN NoUser ELSE UserRecord(b[u])]
         /\ transactions = [u \in Users |-> SeedHistory(b[u])]
    /\ idempotency = [k \in AllKeys |-> 0]
    /\ pc = [p \in Procs |-> "idle"]
    /\ req = [p \in Procs |-> NoReq]
    /\ res = [p \in Procs |-> NoRes]
    /\ applied = [k \in AllKeys |-> 0]
    /\ ctx = [p \in Procs |-> NoCtx]
    /\ wh = NoWh
    /\ pending_stars = [pl \in Payloads |-> NoPending]
    /\ tg = NoTg
    /\ stars_processed = [c \in ChargeIds |-> 0]
    /\ vw = NoVw
    /\ \E sc, bs \in BOOLEAN :
         ls = [NoLs EXCEPT !.secret_set = sc, !.has_balance_service = bs]
    /\ api_keys = {}
    /\ audit_log = {}
    /\ api_prefix = [x \in Prefixes |-> NoCached]
    /\ kc = [p \in Procs |-> NoKc]
    /\ ledger = NoLedger
    /\ http = NoHttp
    /\ auth_fail = [ip \in Ips |-> 0]
    /\ auth = NoAuth
    /\ usage = NoUsage
    /\ refresh_tokens = NoTokens
    /\ rr = NoRrs
    /\ auth_ttl = [ip \in Ips |-> 0]
    /\ conv = NoConv
    /\ api_key_index = [x \in ApiKeyIds |-> 0]

NextLemon ==
    \/ ls_deliver
    \/ process_webhook
    \/ ls_return
    \/ Tick

SpecLemon == InitLemon /\ [][NextLemon]_vars

\* ------------------------------------------------------- AccountService
SERVER_SECRET == "server_secret"

\* _hash_key: HMAC-SHA256 of the secret under the server secret
hash_key(api_secret) == Hmac(SERVER_SECRET, api_secret)

\* raw_key = f"kikuai_{prefix}_{secret}", as the list of its characters (the
\* scheme name is kept as one element)
RawKey(prefix, secret) == <<"kikuai", "_">> \o prefix \o <<"_">> \o secret

\* raw_key.startswith("kikuai_")
StartsWithScheme(raw) == Len(raw) >= 2 /\ raw[1] = "kikuai" /\ raw[2] = "_"

\* raw_key.split("_")
RECURSIVE Split(_)
Split(str) ==
    IF \A i \in 1..Len(str) : str[i] # "_" THEN <<str>>
    ELSE LET i == CHOOSE j \in 1..Len(str) :
                     str[j] = "_" /\ \A k \in 1..(j - 1) : str[k] # "_"
         IN  <<SubSeq(str, 1, i - 1)>> \o Split(SubSeq(str, i + 1, Len(str)))

\* The keys callers present: every well-formed key over the model's
\* alphabets, and one of another scheme.
OtherSchemeKey == <<"sk", "_", "a", "_", "x">>
PresentedKeys ==
    {RawKey(pf, se) : pf \in Prefixes, se \in KeySecrets} \cup {OtherSchemeKey}
\* The prefix and the secret a presented key was generated from.
KeyPrefixOf(raw) ==
    IF \E pf \in Prefixes, se \in KeySecrets : raw = RawKey(pf, se)
    THEN CHOOSE pf \in Prefixes : \E se \in KeySecrets : raw = RawKey(pf, se)
    ELSE <<>>
KeySecretOf(raw) ==
    IF \E pf \in Prefixes, se \in KeySecrets : raw = RawKey(pf, se)
    THEN CHOOSE se \in KeySecrets : \E pf \in Prefixes : raw = RawKey(pf, se)
    ELSE <<>>

\* select(APIKey).where(key_prefix == prefix, is_active == True)
ActiveRows(rows, prefix) == {r \in rows : r.key_prefix = prefix /\ r.is_active}
\* select(APIKey).where(account_id == account_id, key_prefix == prefix)
AccountRows(rows, account_id, prefix) ==
    {r \in rows : r.account_id = account_id /\ r.key_prefix = prefix}
\* The row of the key made of this prefix and this secret, if the table has it.
KeyRows(rows, prefix, secret) ==
    {r \in rows : r.key_prefix = prefix /\ r.key_hash = hash_key(secret)}

key_idle(p) == pc[p] = "idle"
\* The caller of the specifications that follow one caller.
KeyCaller == CHOOSE p \in Procs : TRUE

UnchangedByKeys ==
    UNCHANGED <<storeVars, req, res, ghostVars, handlerVars, verifyVars, extraVars, walletVars, ls,
                ledger, auxVars>>

\* (mutation) the row keeps the secret next to its hash
NewKeyMutKeepsSecret(account_id, prefix, secret, scopes) ==
    [key_prefix |-> prefix, key_hash |-> hash_key(secret), account_id |-> account_id,
     scopes |-> scopes, is_active |-> TRUE, secret |-> secret]

\* key_hash = self._hash_key(secret); APIKey(account_id, key_prefix, key_hash,
\* label, scopes): the row of a new key.
NewKey(account_id, prefix, secret, scopes) ==
    [key_prefix |-> prefix, key_hash |-> hash_key(secret), account_id |-> account_id,
     scopes |-> scopes, is_active |-> TRUE]

\* record_audit(account_id, "KEY_CREATED", metadata={label, prefix, scopes})
KeyCreated(account_id, label, prefix, scopes) ==
    [account_id |-> account_id, action |-> "KEY_CREATED",
     metadata |-> [label |-> label, prefix |-> prefix, scopes |-> scopes]]

\* record_audit(account_id, "KEY_REVOKED", metadata={"prefix": prefix})
KeyRevoked(account_id, prefix) ==
    [account_id |-> account_id, action |-> "KEY_REVOKED",
     metadata |-> [prefix |-> prefix]]

\* create_api_key up to session.commit(): the row is in the table.  The
\* generated prefix is one no row carries.
create_api_key(p) ==
    /\ key_idle(p)
    /\ \E a \in Users, sc \in ScopeSets, pf \in Prefixes, se \in KeySecrets :
         /\ \A r \in api_keys : r.key_prefix # pf
         /\ api_keys' = api_keys \cup {NewKey(a, pf, se, sc)}
         /\ audit_log' = audit_log \cup {KeyCreated(a, "default", pf, sc)}
         /\ kc' = [kc EXCEPT ![p] = [NoKc EXCEPT !.op = "create", !.account_id = a,
                                       !.prefix = pf, !.secret = se, !.scopes = sc,
                                       !.raw_key = RawKey(pf, se)]]
    /\ pc' = [pc EXCEPT ![p] = "create_cache"]
    /\ UNCHANGED api_prefix
    /\ UnchangedByKeys

\* create_api_key when secrets.token_hex(6) returns a prefix that a row
\* already carries: nothing compares the prefix with the table, and the row
\* is added all the same.
create_api_key_repeat(p) ==
    /\ key_idle(p)
    /\ Cardinality(api_keys) < MaxRows
    /\ \E a \in Users, sc \in ScopeSets, pf \in Prefixes, se \in KeySecrets :
         /\ \E r \in api_keys : r.key_prefix = pf
         /\ api_keys' = api_keys \cup {NewKey(a, pf, se, sc)}
         /\ audit_log' = audit_log \cup {KeyCreated(a, "default", pf, sc)}
         /\ kc' = [kc EXCEPT ![p] = [NoKc EXCEPT !.op = "create", !.account_id = a,
                                       !.prefix = pf, !.secret = se, !.scopes = sc,
                                       !.raw_key = RawKey(pf, se)]]
    /\ pc' = [pc EXCEPT ![p] = "create_cache"]
    /\ UNCHANGED api_prefix
    /\ UnchangedByKeys

\* redis_client.set(f"api_prefix:{prefix}", ...); return raw_key
create_cache(p) ==
    /\ pc[p] = "create_cache"
    /\ api_prefix' = [api_prefix EXCEPT ![kc[p].prefix] =
                        [present |-> TRUE, account_id |-> kc[p].account_id,
                         scopes |-> kc[p].scopes, key_hash |-> hash_key(kc[p].secret)]]
    /\ pc' = [pc EXCEPT ![p] = "done"]
    /\ UNCHANGED <<tableVars, kc>>
    /\ UnchangedByKeys

\* verify_key up to the cache lookup: the scheme and the three parts.
verify_key(p) ==
    /\ key_idle(p)
    /\ \E raw \in PresentedKeys :
         LET pf == KeyPrefixOf(raw)
             se == KeySecretOf(raw)
             k == [NoKc EXCEPT !.op = "verify", !.raw_key = raw,
                               !.key_prefix = pf, !.key_secret = se,
                               !.was_active =
                                   /\ \E r \in KeyRows(api_keys, pf, se) : r.is_active
                                   /\ \A q \in Procs : pc[q] = "create_cache"
                                                          => kc[q].prefix # pf,
                               !.was_revoked =
                                   \E r \in KeyRows(api_keys, pf, se) : ~r.is_active]
         IN  IF StartsWithScheme(raw) /\ Len(Split(raw)) = 3
             THEN /\ kc' = [kc EXCEPT ![p] = [k EXCEPT !.prefix = Split(raw)[2],
                                                        !.secret = Split(raw)[3]]]
                  /\ pc' = [pc EXCEPT ![p] = "verify_cache"]
             ELSE /\ kc' = [kc EXCEPT ![p] = k]
                  /\ pc' = [pc EXCEPT ![p] = "done"]
    /\ UNCHANGED <<tableVars, api_prefix>>
    /\ UnchangedByKeys

\* cached_data = redis_client.get(...): a hit decides the call.
verify_cache(p) ==
    /\ pc[p] = "verify_cache"
    /\ IF kc[p].prefix \in Prefixes /\ api_prefix[kc[p].prefix].present
       THEN /\ pc' = [pc EXCEPT ![p] = "done"]
            /\ kc' = [kc EXCEPT ![p].result =
                        IF api_prefix[kc[p].prefix].key_hash = hash_key(kc[p].secret)
                        THEN [account |-> api_prefix[kc[p].prefix].account_id,
                              scopes |-> api_prefix[kc[p].prefix].scopes]
                        ELSE NoAccount]
       ELSE /\ pc' = [pc EXCEPT ![p] = "verify_db"]
            /\ UNCHANGED kc
    /\ UNCHANGED <<tableVars, api_prefix>>
    /\ UnchangedByKeys

\* Database fallback: the active row of the prefix, and its hash.
verify_db(p) ==
    /\ pc[p] = "verify_db"
    /\ IF \E r \in ActiveRows(api_keys, kc[p].prefix) : r.key_hash = hash_key(kc[p].secret)
       THEN /\ kc' = [kc EXCEPT ![p].row =
                        CHOOSE r \in ActiveRows(api_keys, kc[p].prefix) :
                            r.key_hash = hash_key(kc[p].secret)]
            /\ pc' = [pc EXCEPT ![p] = "verify_set"]
       ELSE /\ UNCHANGED kc
            /\ pc' = [pc EXCEPT ![p] = "done"]
    /\ UNCHANGED <<tableVars, api_prefix>>
    /\ UnchangedByKeys

\* "Cache it", then return the account and the row's scopes.
verify_set(p) ==
    /\ pc[p] = "verify_set"
    /\ api_prefix' = [api_prefix EXCEPT ![kc[p].prefix] =
                        [present |-> TRUE, account_id |-> kc[p].row.account_id,
                         scopes |-> kc[p].row.scopes, key_hash |-> kc[p].row.key_hash]]
    /\ kc' = [kc EXCEPT ![p].result = [account |-> kc[p].row.account_id,
                                       scopes |-> kc[p].row.scopes]]
    /\ pc' = [pc EXCEPT ![p] = "done"]
    /\ UNCHANGED tableVars
    /\ UnchangedByKeys

\* revoke_key up to "if key": the row of this account and prefix
\* (scalar_one_or_none raises when there are several).
revoke_key(p) ==
    /\ key_idle(p)
    /\ \E a \in Users, pf \in Prefixes :
         IF Cardinality(AccountRows(api_keys, a, pf)) > 1
         THEN /\ kc' = [kc EXCEPT ![p] = [NoKc EXCEPT !.op = "revoke", !.account_id = a,
                            !.prefix = pf, !.result = Raised]]
              /\ pc' = [pc EXCEPT ![p] = "done"]
         ELSE IF AccountRows(api_keys, a, pf) # {}
         THEN /\ kc' = [kc EXCEPT ![p] = [NoKc EXCEPT !.op = "revoke", !.account_id = a,
                            !.prefix = pf,
                            !.row = CHOOSE r \in AccountRows(api_keys, a, pf) : TRUE]]
              /\ pc' = [pc EXCEPT ![p] = "revoke_evict"]
         ELSE /\ kc' = [kc EXCEPT ![p] = [NoKc EXCEPT !.op = "revoke", !.account_id = a,
                            !.prefix = pf]]
              /\ pc' = [pc EXCEPT ![p] = "done"]
    /\ UNCHANGED <<tableVars, api_prefix>>
    /\ UnchangedByKeys

\* redis_client.delete(...) inside try/except: the entry is deleted.
revoke_evict(p) ==
    /\ pc[p] = "revoke_evict"
    /\ api_prefix' = [api_prefix EXCEPT ![kc[p].prefix] = NoCached]
    /\ pc' = [pc EXCEPT ![p] = "revoke_commit"]
    /\ UNCHANGED <<tableVars, kc>>
    /\ UnchangedByKeys

\* redis_client.delete(...) raises: the exception is passed over.
revoke_evict_fail(p) ==
    /\ pc[p] = "revoke_evict"
    /\ pc' = [pc EXCEPT ![p] = "revoke_commit"]
    /\ UNCHANGED <<tableVars, api_prefix, kc>>
    /\ UnchangedByKeys

\* session.commit(): is_active = False reaches the table; the call returns.
revoke_commit(p) ==
    /\ pc[p] = "revoke_commit"
    /\ api_keys' = (api_keys \ {kc[p].row}) \cup {[kc[p].row EXCEPT !.is_active = FALSE]}
    /\ audit_log' = audit_log \cup {KeyRevoked(kc[p].account_id, kc[p].prefix)}
    /\ pc' = [pc EXCEPT ![p] = "done"]
    /\ UNCHANGED <<api_prefix, kc>>
    /\ UnchangedByKeys

\* The caller has the result of its AccountService call.
key_return(p) ==
    /\ pc[p] = "done"
    /\ kc[p].op # "none"
    /\ kc' = [kc EXCEPT ![p] = NoKc]
    /\ pc' = [pc EXCEPT ![p] = "idle"]
    /\ UNCHANGED <<tableVars, api_prefix>>
    /\ UnchangedByKeys

NextKeys ==
    \/ \E p \in Procs : create_api_key(p)
    \/ \E p \in Procs : create_cache(p)
    \/ \E p \in Procs : verify_key(p)
    \/ \E p \in Procs : verify_cache(p)
    \/ \E p \in Procs : verify_db(p)
    \/ \E p \in Procs : verify_set(p)
    \/ \E p \in Procs : revoke_key(p)
    \/ \E p \in Procs : revoke_evict(p)
    \/ \E p \in Procs : revoke_evict_fail(p)
    \/ \E p \in Procs : revoke_commit(p)
    \/ \E p \in Procs : key_return(p)
    \/ Tick

SpecKeys == Init /\ [][NextKeys]_vars

\* The calls of one caller, one after another.
NextStored ==
    \/ create_api_key(KeyCaller)
    \/ create_cache(KeyCaller)
    \/ verify_key(KeyCaller)
    \/ verify_cache(KeyCaller)
    \/ verify_db(KeyCaller)
    \/ verify_set(KeyCaller)
    \/ revoke_key(KeyCaller)
    \/ revoke_evict(KeyCaller)
    \/ revoke_evict_fail(KeyCaller)
    \/ revoke_commit(KeyCaller)
    \/ key_return(KeyCaller)
    \/ Tick

SpecStored == Init /\ [][NextStored]_vars

\* The table alone: keys are created and revoked, one call after another,
\* and a generated prefix may repeat.
NextRows ==
    \/ create_api_key(KeyCaller)
    \/ create_api_key_repeat(KeyCaller)
    \/ create_cache(KeyCaller)
    \/ revoke_key(KeyCaller)
    \/ revoke_evict(KeyCaller)
    \/ revoke_evict_fail(KeyCaller)
    \/ revoke_commit(KeyCaller)
    \/ key_return(KeyCaller)
    \/ Tick

SpecRows == Init /\ [][NextRows]_vars

\* ----------------------------------------------- PostgresBalanceManager
\* The payment engine wired to the PostgreSQL ledger.  LedgerBalanceService
\* follows the design and tests/test_billing.py: add_funds records a topup,
\* record_usage a usage transaction and its usage log, a key can be used once.
LedgerKeys(l) ==
    UNION {{l.transactions[u][i].idempotency_key : i \in 1..Len(l.transactions[u])} :
              u \in Users}

\* _do_update: the ledger call made for a balance mutation.  Only the sign of
\* the amount chooses the call; the transaction's type is not passed on.
do_update(r, source) ==
    IF r.amount > 0
    THEN [op |-> "add_funds", telegram_id |-> r.user, amount |-> r.amount,
          idempotency_key |-> r.key, product_id |-> "", units |-> 0, type |-> "topup"]
    ELSE [op |-> "record_usage", telegram_id |-> r.user, amount |-> 0 - r.amount,
          idempotency_key |-> r.key, product_id |-> source, units |-> 1, type |-> "usage"]

\* How a ledger call ends.
LedgerStatus(l, c) ==
    IF c.idempotency_key \in LedgerKeys(l) THEN "duplicate_payment"
    ELSE IF c.op = "record_usage" /\ l.balance[c.telegram_id] < c.amount
    THEN "insufficient_balance"
    ELSE "ok"

\* The ledger after a call that succeeded.
LedgerApply(l, c) ==
    LET u == c.telegram_id
        delta == IF c.op = "add_funds" THEN c.amount ELSE 0 - c.amount
        txn == [amount_usd |-> delta, type |-> c.type,
                idempotency_key |-> c.idempotency_key]
    IN  [balance |-> [l.balance EXCEPT ![u] = @ + delta],
         transactions |-> [l.transactions EXCEPT ![u] = Append(@, txn)],
         usage_logs |-> IF c.op = "record_usage"
                        THEN [l.usage_logs EXCEPT ![u] =
                                 Append(@, [product_id |-> c.product_id,
                                            units_consumed |-> c.units,
                                            cost_usd |-> c.amount])]
                        ELSE l.usage_logs]

\* process_webhook of the engine over the ledger.
PaddleLedgerOutcome(w) ==
    IF ~verify_webhook(w.sig, BodyOf(w.event), w.now) THEN "invalid_signature"
    ELSE IF PaddleRequest(w.event) = NoReq THEN "none"
    ELSE LET st == LedgerStatus(ledger, do_update(PaddleRequest(w.event), "paddle"))
         IN  IF st = "ok" THEN "transaction"
             ELSE IF st = "duplicate_payment" THEN "none"
             ELSE "error"

\* POST /webhooks/paddle served by the engine over the ledger.
handle_paddle_webhook_ledger ==
    /\ wh.phase = "received"
    /\ LET outcome == IF ~wh.json_ok THEN "invalid_json" ELSE PaddleLedgerOutcome(wh)
           call == do_update(PaddleRequest(wh.event), "paddle")
       IN  /\ IF outcome = "transaction"
              THEN /\ LedgerApply(ledger, call).balance[call.telegram_id] <= MaxBalance
                   /\ ledger' = LedgerApply(ledger, call)
              ELSE UNCHANGED ledger
           /\ wh' = [wh EXCEPT !.phase = "done", !.response = PaddleResponse(outcome)]
    /\ UNCHANGED <<storeVars, callVars, ghostVars, ctx, verifyVars, extraVars, walletVars,
                   ls, keyVars, auxVars>>

NextLedger ==
    \/ deliver_paddle
    \/ handle_paddle_webhook_ledger
    \/ respond_paddle

SpecLedger == Init /\ [][NextLedger]_vars

\* ------------------------------------------------ provider HTTP requests
\* The request loop of the card provider's client: a request is sent up to
\* max_retries times, with a sleep before every further attempt.
max_retries == 3
\* Backoff in milliseconds: base 250, factor 2, jitter of a quarter, cap 8 s.
BackoffBase == 250
BackoffFactor == 2
BackoffCap == 8000
JitterPercent == 25
SecondMs == 1000
NoHeader == 0 - 1
\* Retry-After headers the provider sends, in seconds.
RetryAfters == {0, 1}
\* What an attempt can end with: a response, or a network error (status 0).
HttpResponses ==
    {[status |-> st, retry_after |-> NoHeader] : st \in {0, 200, 400, 429, 500}}
        \cup {[status |-> 429, retry_after |-> ra] : ra \in RetryAfters}

Retryable(r) == r.status = 0 \/ r.status >= 500 \/ r.status = 429

RECURSIVE Power(_, _)
Power(b, n) == IF n = 0 THEN 1 ELSE b * Power(b, n - 1)

Min(a, b) == IF a <= b THEN a ELSE b

\* The backoff after the n-th failed attempt, with jitter j percent.
Backoff(n, j) ==
    LET d == BackoffBase * Power(BackoffFactor, n - 1)
    IN  Min(BackoffCap, d + ((d * j) \div 100))

\* (mutation) the Retry-After header is not consulted
WaitBeforeMutNoRetryAfter(r, n, j) == Backoff(n, j)

\* The sleep before the next attempt: the Retry-After value when the
\* response carries one, the backoff otherwise.
WaitBefore(r, n, j) ==
    IF r.retry_after # NoHeader THEN SecondMs * r.retry_after ELSE Backoff(n, j)

\* (mutation) one attempt more before giving up
HttpOutcomeMutOneMore(r, n) ==
    IF r.status = 200 THEN "ok"
    ELSE IF ~Retryable(r) THEN "client_error"
    ELSE IF n > max_retries THEN "max_retries"
    ELSE "retry"

\* What the loop does with the response of its n-th attempt.
HttpOutcome(r, n) ==
    IF r.status = 200 THEN "ok"
    ELSE IF ~Retryable(r) THEN "client_error"
    ELSE IF n >= max_retries THEN "max_retries"
    ELSE "retry"

\* A caller starts a request (create_checkout).
http_request ==
    /\ http.phase \in {"idle", "returned", "raised"}
    /\ http' = [NoHttp EXCEPT !.phase = "sending"]
    /\ UNCHANGED <<storeVars, callVars, ghostVars, handlerVars, verifyVars, extraVars, walletVars,
                   ls, keyVars, ledger, auth_fail, auth>>

\* One attempt: the request is sent and its response decides.
http_attempt ==
    /\ http.phase = "sending"
    /\ \E r \in HttpResponses :
         LET n == Len(http.responses) + 1
             o == HttpOutcome(r, n)
         IN  \/ /\ o = "ok"
                /\ http' = [http EXCEPT !.responses = Append(@, r),
                                        !.phase = "returned", !.code = o]
             \/ /\ o \in {"client_error", "max_retries"}
                /\ http' = [http EXCEPT !.responses = Append(@, r),
                                        !.phase = "raised", !.code = o]
             \/ /\ o = "retry"
                /\ \E j \in {0 - JitterPercent, 0, JitterPercent} :
                     http' = [http EXCEPT !.responses = Append(@, r),
                                          !.phase = "sleeping",
                                          !.wait = WaitBefore(r, n, j)]
    /\ UNCHANGED <<storeVars, callVars, ghostVars, handlerVars, verifyVars, extraVars, walletVars,
                   ls, keyVars, ledger, auth_fail, auth>>

\* asyncio.sleep(wait), then the next attempt.
http_sleep ==
    /\ http.phase = "sleeping"
    /\ http' = [http EXCEPT !.sleeps = Append(@, http.wait), !.phase = "sending",
                            !.wait = 0]
    /\ UNCHANGED <<storeVars, callVars, ghostVars, handlerVars, verifyVars, extraVars, walletVars,
                   ls, keyVars, ledger, auth_fail, auth>>

NextHttp ==
    \/ http_request
    \/ http_attempt
    \/ http_sleep

SpecHttp == Init /\ [][NextHttp]_vars

\* ------------------------------------------------------ authentication
\* get_current_account and its limiter, one request at a time.
\* "int(fails) >= 5"
AUTH_FAIL_LIMIT == 5

\* (mutation) the limiter refuses one failure later
RateLimitedMutOneLater(ip) == ip # NoIp /\ auth_fail[ip] > AUTH_FAIL_LIMIT

\* check_auth_rate_limit raises 429: the context has an ip and its counter
\* has reached the limit.
RateLimited(ip) == ip # NoIp /\ auth_fail[ip] >= AUTH_FAIL_LIMIT

\* record_auth_failure: INCR auth_fail:<ip> (the first one starts the
\* 15-minute window); nothing without an ip.
record_auth_failure(ip) ==
    IF ip = NoIp THEN auth_fail ELSE [auth_fail EXCEPT ![ip] = @ + 1]

\* verify_key as one step: the scheme, the three parts, the cached entry of
\* the prefix, else the active row of the prefix.
VerifyKeyResult(raw) ==
    IF ~(StartsWithScheme(raw) /\ Len(Split(raw)) = 3) THEN NoAccount
    ELSE LET prefix == Split(raw)[2]
             incoming_hash == hash_key(Split(raw)[3])
         IN  IF prefix \in Prefixes /\ api_prefix[prefix].present
             THEN IF api_prefix[prefix].key_hash = incoming_hash
                  THEN [account |-> api_prefix[prefix].account_id,
                        scopes |-> api_prefix[prefix].scopes]
                  ELSE NoAccount
             ELSE IF \E r \in ActiveRows(api_keys, prefix) : r.key_hash = incoming_hash
             THEN LET r == CHOOSE r \in ActiveRows(api_keys, prefix) :
                               r.key_hash = incoming_hash
                  IN  [account |-> r.account_id, scopes |-> r.scopes]
             ELSE NoAccount

\* The cache after verify_key: a row found by the database fallback is cached.
VerifyKeyCache(raw) ==
    IF ~(StartsWithScheme(raw) /\ Len(Split(raw)) = 3) THEN api_prefix
    ELSE LET prefix == Split(raw)[2]
             incoming_hash == hash_key(Split(raw)[3])
         IN  IF prefix \in Prefixes /\ ~api_prefix[prefix].present
                /\ \E r \in ActiveRows(api_keys, prefix) : r.key_hash = incoming_hash
             THEN LET r == CHOOSE r \in ActiveRows(api_keys, prefix) :
                               r.key_hash = incoming_hash
                  IN  [api_prefix EXCEPT ![prefix] =
                         [present |-> TRUE, account_id |-> r.account_id,
                          scopes |-> r.scopes, key_hash |-> r.key_hash]]
             ELSE api_prefix

\* The account of a request: the bearer token's when the token is valid
\* (bearer = its account, 0 = no valid token), else the API key's.
AccountOf(bearer, x_api_key) ==
    IF bearer # 0 THEN [account |-> bearer, scopes |-> {}]
    ELSE IF x_api_key # <<>> THEN VerifyKeyResult(x_api_key)
    ELSE NoAccount

UnchangedByAuth ==
    UNCHANGED <<storeVars, callVars, ghostVars, handlerVars, verifyVars, extraVars, walletVars,
                ls, tableVars, kc, ledger, http>>

\* A request arrives: its address, its bearer token and its API key.
auth_request ==
    /\ auth.phase = "idle"
    /\ \E ip \in Ips \cup {NoIp}, bearer \in {0} \cup Users,
          raw \in PresentedKeys \cup {<<>>} :
         auth' = [auth EXCEPT !.phase = "check", !.ip = ip, !.bearer = bearer,
                              !.x_api_key = raw]
    /\ UNCHANGED <<auth_fail, api_prefix>>
    /\ UnchangedByAuth

\* await check_auth_rate_limit()
check_auth_rate_limit ==
    /\ auth.phase = "check"
    /\ IF RateLimited(auth.ip)
       THEN auth' = [auth EXCEPT !.phase = "done", !.status = 429]
       ELSE auth' = [auth EXCEPT !.phase = "verify"]
    /\ UNCHANGED <<auth_fail, api_prefix>>
    /\ UnchangedByAuth

\* The rest of get_current_account: the credentials are examined; without an
\* account the failure is recorded and the answer is 401.
get_current_account ==
    /\ auth.phase = "verify"
    /\ LET found == AccountOf(auth.bearer, auth.x_api_key)
       IN  IF found.account = 0
           THEN /\ auth_fail' = record_auth_failure(auth.ip)
                /\ auth' = [auth EXCEPT !.phase = "done", !.status = 401,
                                        !.examined = TRUE,
                                        !.failures =
                                            IF auth.ip = NoIp THEN @
                                            ELSE [@ EXCEPT ![auth.ip] = @ + 1]]
           ELSE /\ auth' = [auth EXCEPT !.phase = "done", !.status = 200,
                                        !.examined = TRUE,
                                        !.account = found.account,
                                        !.scopes = found.scopes]
                /\ UNCHANGED auth_fail
    /\ api_prefix' = IF auth.bearer = 0 /\ auth.x_api_key # <<>>
                     THEN VerifyKeyCache(auth.x_api_key) ELSE api_prefix
    /\ UnchangedByAuth

\* Scopes a route can require.
RequiredScopes == {"read", "write"}

\* (mutation) a key without scopes is refused as well
ScopeDeniedMutStrict(scopes, required_scope) == required_scope \notin scopes

\* scope_checker raises 403: "if not scopes or required_scope not in scopes",
\* and then only "if scopes".
ScopeDenied(scopes, required_scope) ==
    /\ scopes = {} \/ required_scope \notin scopes
    /\ scopes # {}

\* require_scope(required_scope) on a request authenticated by its API key.
scope_checker ==
    /\ auth.phase = "done"
    /\ auth.status = 200
    /\ auth.bearer = 0
    /\ \E required_scope \in RequiredScopes :
         auth' = [auth EXCEPT !.phase = "checked", !.required = required_scope,
                              !.status = IF ScopeDenied(auth.scopes, required_scope)
                                         THEN 403 ELSE 200]
    /\ UNCHANGED <<auth_fail, api_prefix>>
    /\ UnchangedByAuth

\* The response is sent.
auth_return ==
    /\ auth.phase \in {"done", "checked"}
    /\ auth' = [NoAuth EXCEPT !.failures = auth.failures]
    /\ UNCHANGED <<auth_fail, api_prefix>>
    /\ UnchangedByAuth

\* The counter of an address expires, 900 s after its first failure.
auth_expire(ip) ==
    /\ auth_fail[ip] > 0
    /\ auth_fail' = [auth_fail EXCEPT ![ip] = 0]
    /\ auth' = [auth EXCEPT !.failures[ip] = 0]
    /\ UNCHANGED api_prefix
    /\ UnchangedByAuth

\* The table when the requests arrive: an active key of account 1 with a
\* scope and a key of account 2 without scopes, active or revoked, neither
\* cached.
AuthRows(active) ==
    {NewKey(1, <<"a">>, <<"x">>, {"read"}),
     [NewKey(2, <<"7">>, <<"x">>, {}) EXCEPT !.is_active = active]}
\* The audit entries of those rows.
AuthAudit(active) ==
    {KeyCreated(1, "default", <<"a">>, {"read"}), KeyCreated(2, "default", <<"7">>, {})}
        \cup (IF active THEN {} ELSE {KeyRevoked(2, <<"7">>)})

InitAuth ==
    /\ user_data = [u \in Users |-> NoUser]
    /\ transactions = [u \in Users |-> <<>>]
    /\ idempotency = [k \in AllKeys |-> 0]
    /\ pc = [p \in Procs |-> "idle"]
    /\ req = [p \in Procs |-> NoReq]
    /\ res = [p \in Procs |-> NoRes]
    /\ applied = [k \in AllKeys |-> 0]
    /\ initial = [u \in Users |-> 0]
    /\ ctx = [p \in Procs |-> NoCtx]
    /\ wh = NoWh
    /\ pending_stars = [pl \in Payloads |-> NoPending]
    /\ tg = NoTg
    /\ stars_processed = [c \in ChargeIds |-> 0]
    /\ vw = NoVw
    /\ ls = NoLs
    /\ \E active \in BOOLEAN : api_keys = AuthRows(active) /\ audit_log = AuthAudit(active)
    /\ api_prefix = [x \in Prefixes |-> NoCached]
    /\ kc = [p \in Procs |-> NoKc]
    /\ ledger = NoLedger
    /\ http = NoHttp
    /\ auth_fail = [ip \in Ips |-> 0]
    /\ auth = NoAuth
    /\ usage = NoUsage
    /\ refresh_tokens = NoTokens
    /\ rr = NoRrs
    /\ auth_ttl = [ip \in Ips |-> 0]
    /\ conv = NoConv
    /\ api_key_index = [x \in ApiKeyIds |-> 0]

NextAuth ==
    \/ auth_request
    \/ check_auth_rate_limit
    \/ get_current_account
    \/ scope_checker
    \/ auth_return
    \/ \E ip \in Ips : auth_expire(ip)

SpecAuth == InitAuth /\ [][NextAuth]_vars

\* ------------------------------------------------------- cache outage
\* The same calls while every operation on the cache raises.

\* create_api_key: redis_client.set(...) raises after the commit; the row
\* stays and the raw key is not returned.
create_cache_fail(p) ==
    /\ pc[p] = "create_cache"
    /\ kc' = [kc EXCEPT ![p].result = Raised, ![p].raw_key = <<>>]
    /\ pc' = [pc EXCEPT ![p] = "done"]
    /\ UNCHANGED <<tableVars, api_prefix>>
    /\ UnchangedByKeys

\* verify_key: redis_client.get(...) raises; nothing in verify_key catches it.
verify_cache_fail(p) ==
    /\ pc[p] = "verify_cache"
    /\ kc' = [kc EXCEPT ![p].result = Raised]
    /\ pc' = [pc EXCEPT ![p] = "done"]
    /\ UNCHANGED <<tableVars, api_prefix>>
    /\ UnchangedByKeys

\* check_auth_rate_limit: redis_client.get(...) raises and is ignored.
check_auth_rate_limit_fail ==
    /\ auth.phase = "check"
    /\ auth' = [auth EXCEPT !.phase = "verify"]
    /\ UNCHANGED <<auth_fail, api_prefix>>
    /\ UnchangedByAuth

\* get_current_account: a key of the right form reaches verify_key's cache
\* lookup, which raises (500); otherwise no account is found, or the bearer
\* token's, and record_auth_failure's INCR raises and is passed over.
get_current_account_fail ==
    /\ auth.phase = "verify"
    /\ IF auth.bearer # 0
       THEN auth' = [auth EXCEPT !.phase = "done", !.status = 200, !.examined = TRUE,
                                 !.account = auth.bearer]
       ELSE IF StartsWithScheme(auth.x_api_key) /\ Len(Split(auth.x_api_key)) = 3
       THEN auth' = [auth EXCEPT !.phase = "done", !.status = 500, !.examined = TRUE]
       ELSE auth' = [auth EXCEPT !.phase = "done", !.status = 401, !.examined = TRUE]
    /\ UNCHANGED <<auth_fail, api_prefix>>
    /\ UnchangedByAuth

NextDegraded ==
    \/ create_api_key(KeyCaller)
    \/ create_cache_fail(KeyCaller)
    \/ verify_key(KeyCaller)
    \/ verify_cache_fail(KeyCaller)
    \/ revoke_key(KeyCaller)
    \/ revoke_evict_fail(KeyCaller)
    \/ revoke_commit(KeyCaller)
    \/ key_return(KeyCaller)
    \/ auth_request
    \/ check_auth_rate_limit_fail
    \/ get_current_account_fail
    \/ auth_return

SpecDegraded == Init /\ [][NextDegraded]_vars

\* ------------------------------------------------- proxy refund (Redis)
\* routes/proxy.py, proxy_llm and proxy_http: when the upstream request
\* fails after the charge, the route reads the balance, builds the REFUND
\* transaction from it and calls update_balance.  The balance is read by
\* one command and the script runs as another; commands of other processes
\* on the same store (API workers, the bot) run in between.

\* estimated_cost: one unit of the model's money.
estimated_cost == 1

\* Transaction(type=REFUND, amount_usd=estimated_cost,
\* balance_before=current_balance,
\* balance_after=current_balance + estimated_cost).to_dict()
RefundTxn(current_balance) ==
    [amount_usd |-> estimated_cost, type |-> "refund",
     balance_before |-> current_balance,
     balance_after |-> current_balance + estimated_cost]

\* current_balance = await balance_manager.get_balance(user_id); the key
\* refund_<user>_<token_hex(8)> is a random value.
refund_get_balance(p) ==
    /\ pc[p] = "idle"
    /\ \E u \in Users, k \in Keys :
            req' = [req EXCEPT ![p] = [user |-> u, amount |-> estimated_cost,
                                       key |-> k, type |-> "refund",
                                       current_balance |-> get_balance(u)]]
    /\ pc' = [pc EXCEPT ![p] = "refund"]
    /\ UNCHANGED <<res, storeVars, ghostVars, handlerVars, verifyVars, extraVars, sideVars, walletVars>>

\* await balance_manager.update_balance(user_id, estimated_cost, refund_txn, key)
refund_update_balance(p) ==
    /\ pc[p] = "refund"
    /\ EvalScript(req[p], RefundTxn(req[p].current_balance))
    /\ res' = [res EXCEPT ![p] = ScriptResult(req[p])]
    /\ pc' = [pc EXCEPT ![p] = "done"]
    /\ UNCHANGED <<req, initial, handlerVars, verifyVars, extraVars, sideVars, walletVars>>

NextRefund ==
    \/ \E p \in Procs : refund_get_balance(p)
    \/ \E p \in Procs : refund_update_balance(p)
    \/ \E p \in Procs : Return(p)
    \/ Tick

SpecRefund == Init /\ [][NextRefund]_vars

\* ------------------------------------------------------- UsageTracker
\* track_usage prices the units and records the usage in the ledger; the
\* ledger call is one database transaction.
ProductIds == {"masker"}
UnknownProduct == "unknown"
\* Product.base_price_per_unit, in units of the model's money.
base_price_per_unit(product_id) == 1
UnitCounts == {1, 2}

\* cost = price * units; ledger.record_usage(telegram_id, product_id, units,
\* cost, idempotency_key).
UsageCall(telegram_id, product_id, units, key) ==
    [op |-> "record_usage", telegram_id |-> telegram_id,
     amount |-> base_price_per_unit(product_id) * units,
     idempotency_key |-> key, product_id |-> product_id, units |-> units,
     type |-> "usage"]

track_usage ==
    /\ \E u \in Users, product_id \in ProductIds \cup {UnknownProduct},
          units \in UnitCounts, k \in Keys :
         LET call == UsageCall(u, product_id, units, k)
             st == IF product_id \notin ProductIds THEN "product_not_found"
                   ELSE LedgerStatus(ledger, call)
         IN  /\ ledger' = IF st = "ok" THEN LedgerApply(ledger, call) ELSE ledger
             /\ usage' = [counter |-> IF st = "ok"
                                      THEN [usage.counter EXCEPT ![u] = @ + units]
                                      ELSE usage.counter,
                          outcome |-> [status |-> st, telegram_id |-> u,
                                       product_id |-> product_id, units |-> units,
                                       cost |-> call.amount, key |-> k]]
    /\ UNCHANGED <<storeVars, callVars, ghostVars, handlerVars, verifyVars, walletVars,
                   ls, keyVars, auxVars, refresh_tokens, rr, auth_ttl, conv, api_key_index>>

NextUsage ==
    \/ deliver_paddle
    \/ handle_paddle_webhook_ledger
    \/ respond_paddle
    \/ track_usage

SpecUsage == Init /\ [][NextUsage]_vars

RECURSIVE SumCost(_)
SumCost(logs) ==
    IF logs = <<>> THEN 0 ELSE Head(logs).cost_usd + SumCost(Tail(logs))

RECURSIVE SumUsageDebits(_)
SumUsageDebits(list) ==
    IF list = <<>> THEN 0
    ELSE (IF Head(list).type = "usage" THEN 0 - Head(list).amount_usd ELSE 0)
            + SumUsageDebits(Tail(list))

\* ------------------------------------------- TelegramStarsProvider helpers
\* The wallet adapter's conversions, 50 stars = $1.  Dollar amounts are
\* counted in cents, so that amounts between two multiples of 0.02 exist.
CentsPerUsd == 100
UsdInputs == 0..MaxCents
StarInputs == 0..((MaxCents * StarsPerUsd) \div CentsPerUsd)

\* round(n / d) to the nearest integer, a tie going to the even neighbour.
RoundHalfEven(n, d) ==
    LET q == n \div d
        r == n % d
    IN  IF 2 * r < d THEN q
        ELSE IF 2 * r > d THEN q + 1
        ELSE IF q % 2 = 0 THEN q ELSE q + 1

\* usd_to_stars(x) = round(x * 50), x in cents
usd_to_stars(x) == RoundHalfEven(StarsPerUsd * x, CentsPerUsd)

\* (mutation) whole dollars only
provider_stars_to_usdMutWholeDollars(stars) == (stars \div StarsPerUsd) * CentsPerUsd

\* TelegramStarsProvider.stars_to_usd(stars) = Decimal(stars) / 50, in cents
provider_stars_to_usd(stars) == (stars * CentsPerUsd) \div StarsPerUsd

\* One conversion, or one conversion and its way back, is computed per run.
call_usd_to_stars ==
    /\ conv.phase = "none"
    /\ \E x \in UsdInputs :
         conv' = [phase |-> "stars", x |-> x, stars |-> usd_to_stars(x), usd |-> NoValue]
    /\ UNCHANGED <<storeVars, callVars, ghostVars, handlerVars, verifyVars, walletVars,
                   sideVars, usage, refresh_tokens, rr, auth_ttl, api_key_index>>

call_stars_to_usd ==
    /\ \/ /\ conv.phase = "stars"
          /\ conv' = [conv EXCEPT !.phase = "usd",
                                  !.usd = provider_stars_to_usd(conv.stars)]
       \/ /\ conv.phase = "none"
          /\ \E s \in StarInputs :
             conv' = [phase |-> "usd", x |-> NoValue, stars |-> s,
                      usd |-> provider_stars_to_usd(s)]
    /\ UNCHANGED <<storeVars, callVars, ghostVars, handlerVars, verifyVars, walletVars,
                   sideVars, usage, refresh_tokens, rr, auth_ttl, api_key_index>>

NextConversion ==
    \/ call_usd_to_stars
    \/ call_stars_to_usd

SpecConversion == Init /\ [][NextConversion]_vars

\* --------------------------------------------- rewrites of the user record
\* /start (get_or_create_user), the bot's regenerate_api_key and the legacy
\* route POST /api/v1/api_keys read user:<id> with GET and write the whole
\* record back with SET; the key mappings are written after it.
RewriteOps == {"get_or_create_user", "regenerate_api_key", "create_api_key"}
MutationTypes == {"topup", "usage"}

\* generate_api_key(): a value no key carries yet.
NewApiKey(p) == Cardinality(Users) + p

\* user.get("api_key")
ApiKeyOf(user) == IF "api_key" \in DOMAIN user THEN user.api_key ELSE NoApiKey

\* The record /start writes for a new user.
NewUser(api_key) == [exists |-> TRUE, balance_usd |-> 0, api_key |-> api_key]

\* user["api_key"] = new_key; json.dumps(user): every field as it was read.
WithApiKey(user, new_key) ==
    [exists |-> TRUE, balance_usd |-> user.balance_usd, api_key |-> new_key]

RewriteReq(op, u, user, new_key) ==
    [user |-> u, amount |-> 0, key |-> NoKey, type |-> op, copy |-> user,
     new_key |-> new_key]
RewriteRes(status) == [status |-> status, balance |-> 0, required |-> 0]

UnchangedByRewrite ==
    UNCHANGED <<transactions, idempotency, ghostVars, handlerVars, verifyVars, walletVars,
                sideVars, usage, refresh_tokens, rr, auth_ttl, conv>>

\* get_or_create_user: the GET; an existing user is returned as stored.
get_or_create_user(p) ==
    /\ pc[p] = "idle"
    /\ \E u \in Users :
         IF user_data[u].exists
         THEN /\ req' = [req EXCEPT ![p] =
                           RewriteReq("get_or_create_user", u, user_data[u], NoApiKey)]
              /\ res' = [res EXCEPT ![p] = RewriteRes("ok")]
              /\ pc' = [pc EXCEPT ![p] = "done"]
         ELSE /\ req' = [req EXCEPT ![p] =
                           RewriteReq("get_or_create_user", u, NoUser, NewApiKey(p))]
              /\ res' = res
              /\ pc' = [pc EXCEPT ![p] = "create_user"]
    /\ UNCHANGED <<user_data, api_key_index>>
    /\ UnchangedByRewrite

\* get_or_create_user: the new user and the mapping of its key are saved.
create_user(p) ==
    /\ pc[p] = "create_user"
    /\ user_data' = [user_data EXCEPT ![req[p].user] = NewUser(req[p].new_key)]
    /\ api_key_index' = [api_key_index EXCEPT ![req[p].new_key] = req[p].user]
    /\ res' = [res EXCEPT ![p] = RewriteRes("ok")]
    /\ pc' = [pc EXCEPT ![p] = "done"]
    /\ req' = req
    /\ UnchangedByRewrite

\* The user is read: regenerate_api_key does it for the chat's user, the
\* route for the user the presented key is mapped to.
ReadForRewrite(p, op, u) ==
    IF u = 0
    THEN /\ req' = [req EXCEPT ![p] = RewriteReq(op, 0, NoUser, NoApiKey)]
         /\ res' = [res EXCEPT ![p] = RewriteRes("unauthorized")]
         /\ pc' = [pc EXCEPT ![p] = "done"]
    ELSE IF ~user_data[u].exists
    THEN /\ req' = [req EXCEPT ![p] = RewriteReq(op, u, NoUser, NoApiKey)]
         /\ res' = [res EXCEPT ![p] = RewriteRes("not_found")]
         /\ pc' = [pc EXCEPT ![p] = "done"]
    ELSE /\ req' = [req EXCEPT ![p] = RewriteReq(op, u, user_data[u], NewApiKey(p))]
         /\ res' = res
         /\ pc' = [pc EXCEPT ![p] = "rewrite"]

regenerate_api_key(p) ==
    /\ pc[p] = "idle"
    /\ \E u \in Users : ReadForRewrite(p, "regenerate_api_key", u)
    /\ UNCHANGED <<user_data, api_key_index>>
    /\ UnchangedByRewrite

route_create_api_key(p) ==
    /\ pc[p] = "idle"
    /\ \E x_api_key \in ApiKeyIds :
         ReadForRewrite(p, "create_api_key", api_key_index[x_api_key])
    /\ UNCHANGED <<user_data, api_key_index>>
    /\ UnchangedByRewrite

\* The record is written back with the new key, the old mapping is deleted
\* and the new one saved.
save_api_key(p) ==
    /\ pc[p] = "rewrite"
    /\ LET u == req[p].user
           old_key == ApiKeyOf(req[p].copy)
       IN  /\ user_data' = [user_data EXCEPT ![u] =
                               WithApiKey(req[p].copy, req[p].new_key)]
           /\ api_key_index' =
                 [x \in ApiKeyIds |->
                    IF x = req[p].new_key THEN u
                    ELSE IF x = old_key THEN 0
                    ELSE api_key_index[x]]
    /\ res' = [res EXCEPT ![p] = RewriteRes("ok")]
    /\ pc' = [pc EXCEPT ![p] = "done"]
    /\ req' = req
    /\ UnchangedByRewrite

\* Before the callers start a user has no record, or the record a credit
\* made for it, or the record of /start with its balance.
InitRewrite ==
    /\ \E b \in [Users -> 0..MaxBalance], kind \in [Users -> {"none", "minimal", "full"}] :
         /\ \A u \in Users : kind[u] = "none" => b[u] = 0
         /\ initial = b
         /\ user_data = [u \in Users |->
                           CASE kind[u] = "none" -> NoUser
                             [] kind[u] = "minimal" -> UserRecord(b[u])
                             [] OTHER -> [NewUser(u) EXCEPT !.balance_usd = b[u]]]
         /\ transactions = [u \in Users |-> SeedHistory(b[u])]
         /\ api_key_index = [x \in ApiKeyIds |->
                               IF x \in Users /\ kind[x] = "full" THEN x ELSE 0]
    /\ idempotency = [k \in AllKeys |-> 0]
    /\ pc = [p \in Procs |-> "idle"]
    /\ req = [p \in Procs |-> NoReq]
    /\ res = [p \in Procs |-> NoRes]
    /\ applied = [k \in AllKeys |-> 0]
    /\ ctx = [p \in Procs |-> NoCtx]
    /\ wh = NoWh
    /\ pending_stars = [pl \in Payloads |-> NoPending]
    /\ tg = NoTg
    /\ stars_processed = [c \in ChargeIds |-> 0]
    /\ vw = NoVw
    /\ ls = NoLs
    /\ api_keys = {}
    /\ audit_log = {}
    /\ api_prefix = [x \in Prefixes |-> NoCached]
    /\ kc = [p \in Procs |-> NoKc]
    /\ ledger = NoLedger
    /\ http = NoHttp
    /\ auth_fail = [ip \in Ips |-> 0]
    /\ auth = NoAuth
    /\ usage = NoUsage
    /\ refresh_tokens = NoTokens
    /\ rr = NoRrs
    /\ auth_ttl = [ip \in Ips |-> 0]
    /\ conv = NoConv

\* Two callers, one call each.
NextRewrite ==
    \/ \E p \in Procs : Invoke(p)
    \/ \E p \in Procs : update_balance(p)
    \/ \E p \in Procs : get_or_create_user(p)
    \/ \E p \in Procs : create_user(p)
    \/ \E p \in Procs : regenerate_api_key(p)
    \/ \E p \in Procs : route_create_api_key(p)
    \/ \E p \in Procs : save_api_key(p)

SpecRewrite == InitRewrite /\ [][NextRewrite]_vars

\* The delta caller p has applied to user u.
AppliedDelta(p, u) ==
    IF req[p].type \in MutationTypes /\ req[p].user = u /\ res[p].status = "ok"
    THEN req[p].amount ELSE 0

\* ----------------------------------------------------- refresh tokens
\* routes/auth.py keeps the refresh tokens of the process in the dict
\* _refresh_tokens.  The handlers run on one event loop: a handler is
\* interrupted only where it awaits the database.
\* expires_at = now + 7 days, one tick of this clock.
RefreshTTL == 1

\* The token create_token_pair makes: one that was never issued before.
NextToken == rr.issued + 1
\* What a client can present: a token it was given, or a guess.
Presentable == (1..rr.issued) \cup {Forged}
Stored(account_id) == [present |-> TRUE, account_id |-> account_id, expires_in |-> RefreshTTL]

UnchangedByRefresh ==
    UNCHANGED <<storeVars, callVars, ghostVars, handlerVars, verifyVars, walletVars,
                sideVars, usage, auth_ttl, conv, api_key_index>>

\* POST /verify and POST /telegram: a token pair is made for the account and
\* the hash of its refresh token is stored.
login ==
    /\ rr.issued < MaxTokens
    /\ \E account_id \in Users :
         refresh_tokens' = [refresh_tokens EXCEPT
                              ![hash_refresh_token(NextToken)] = Stored(account_id)]
    /\ rr' = [rr EXCEPT !.issued = NextToken]
    /\ UnchangedByRefresh

\* POST /refresh up to the await of the account: unknown and expired tokens
\* are answered 401, an expired one is deleted.
refresh_access_token(p) ==
    /\ rr.call[p].phase = "idle"
    /\ \E token \in Presentable :
         LET token_hash == hash_refresh_token(token)
             token_data == refresh_tokens[token_hash]
             r == [NoRr EXCEPT !.op = "refresh", !.token = token,
                               !.token_data = token_data,
                               !.was_retired = rr.retired[token],
                               !.was_valid = token_data.present /\ token_data.expires_in > 0]
         IN  IF ~token_data.present
             THEN /\ rr' = [rr EXCEPT !.call[p] = [r EXCEPT !.phase = "done", !.status = 401]]
                  /\ UNCHANGED refresh_tokens
             ELSE IF token_data.expires_in = 0
             THEN /\ rr' = [rr EXCEPT !.call[p] = [r EXCEPT !.phase = "done", !.status = 401],
                                      !.retired[token] = TRUE]
                  /\ refresh_tokens' = [refresh_tokens EXCEPT ![token_hash] = NoToken]
             ELSE /\ rr' = [rr EXCEPT !.call[p] = [r EXCEPT !.phase = "get_account"]]
                  /\ UNCHANGED refresh_tokens
    /\ UnchangedByRefresh

\* (mutation) deleting an absent key passes silently
DelRaisesMutPop(token_hash) == FALSE

\* del _refresh_tokens[token_hash] raises KeyError when the key is absent;
\* the request then ends with status 500.
DelRaises(token_hash) == ~refresh_tokens[token_hash].present

\* POST /refresh after the await: the old token is deleted and a new pair
\* is made and stored.
refresh_rotate(p) ==
    /\ rr.call[p].phase = "get_account"
    /\ \E account_found \in BOOLEAN :
         LET c == rr.call[p]
             token_hash == hash_refresh_token(c.token)
         IN  IF DelRaises(token_hash)
             THEN /\ rr' = [rr EXCEPT !.call[p] = [c EXCEPT !.phase = "done", !.status = 500,
                                                            !.account_found = account_found]]
                  /\ UNCHANGED refresh_tokens
             ELSE IF ~account_found
             THEN /\ rr' = [rr EXCEPT !.call[p] = [c EXCEPT !.phase = "done", !.status = 401,
                                                            !.account_found = FALSE],
                                      !.retired[c.token] = TRUE]
                  /\ refresh_tokens' = [refresh_tokens EXCEPT ![token_hash] = NoToken]
             ELSE /\ rr.issued < MaxTokens
                  /\ rr' = [rr EXCEPT !.call[p] = [c EXCEPT !.phase = "done", !.status = 200,
                                                            !.new_token = NextToken],
                                      !.issued = NextToken,
                                      !.succeeded[c.token] = IF @ < 2 THEN @ + 1 ELSE @,
                                      !.retired[c.token] = TRUE]
                  /\ refresh_tokens' =
                        [refresh_tokens EXCEPT
                           ![token_hash] = NoToken,
                           ![hash_refresh_token(NextToken)] = Stored(c.token_data.account_id)]
    /\ UnchangedByRefresh

\* POST /logout: the token's entry is deleted if there is one.
logout(p) ==
    /\ rr.call[p].phase = "idle"
    /\ \E token \in Presentable :
         /\ refresh_tokens' = [refresh_tokens EXCEPT ![hash_refresh_token(token)] = NoToken]
         /\ rr' = [rr EXCEPT !.call[p] = [NoRr EXCEPT !.op = "logout", !.phase = "done",
                                                      !.token = token, !.status = 200],
                             !.retired[token] = TRUE]
    /\ UnchangedByRefresh

\* The response has been sent.
refresh_return(p) ==
    /\ rr.call[p].phase = "done"
    /\ rr' = [rr EXCEPT !.call[p] = NoRr]
    /\ UNCHANGED refresh_tokens
    /\ UnchangedByRefresh

\* Seven days pass between requests.
refresh_tick ==
    /\ \A p \in Procs : rr.call[p].phase \in {"idle", "done"}
    /\ \E h \in TokenHashes : refresh_tokens[h].expires_in > 0
    /\ refresh_tokens' = [h \in TokenHashes |->
                            IF refresh_tokens[h].expires_in > 0
                            THEN [refresh_tokens[h] EXCEPT !.expires_in = @ - 1]
                            ELSE refresh_tokens[h]]
    /\ UNCHANGED rr
    /\ UnchangedByRefresh

NextRefresh ==
    \/ login
    \/ \E p \in Procs : refresh_access_token(p)
    \/ \E p \in Procs : refresh_rotate(p)
    \/ \E p \in Procs : logout(p)
    \/ \E p \in Procs : refresh_return(p)
    \/ refresh_tick

SpecRefresh == Init /\ [][NextRefresh]_vars

\* ------------------------------------------- the limiter's window (Redis)
\* record_auth_failure command by command: INCR auth_fail:<ip>, and for the
\* first failure EXPIRE 900; an exception of either command is passed over.
\* EXPIRE ... 900: the window is one tick of this clock.
AuthWindow == 1

Blocked(ip) == auth_fail[ip] >= AUTH_FAIL_LIMIT

UnchangedByLimiter ==
    UNCHANGED <<storeVars, callVars, ghostVars, handlerVars, verifyVars, walletVars,
                ls, tableVars, kc, ledger, http, usage, refresh_tokens, rr, conv,
                api_key_index>>

\* get_current_account after the limiter's check, up to and including the
\* INCR of record_auth_failure.
get_current_account_incr ==
    /\ auth.phase = "verify"
    /\ LET found == AccountOf(auth.bearer, auth.x_api_key)
       IN  IF found.account # 0
           THEN /\ auth' = [auth EXCEPT !.phase = "done", !.status = 200,
                                        !.examined = TRUE,
                                        !.account = found.account,
                                        !.scopes = found.scopes]
                /\ UNCHANGED auth_fail
           ELSE /\ auth_fail' = record_auth_failure(auth.ip)
                /\ auth' = [auth EXCEPT
                              !.phase = IF auth.ip # NoIp /\ auth_fail'[auth.ip] = 1
                                        THEN "expire" ELSE "done",
                              !.status = 401, !.examined = TRUE]
    /\ api_prefix' = IF auth.bearer = 0 /\ auth.x_api_key # <<>>
                     THEN VerifyKeyCache(auth.x_api_key) ELSE api_prefix
    /\ UNCHANGED auth_ttl
    /\ UnchangedByLimiter

\* if fails == 1: redis_client.expire(limit_key, 900)
record_auth_failure_expire ==
    /\ auth.phase = "expire"
    /\ auth_ttl' = [auth_ttl EXCEPT ![auth.ip] = IF auth_fail[auth.ip] > 0 THEN AuthWindow ELSE @]
    /\ auth' = [auth EXCEPT !.phase = "done"]
    /\ UNCHANGED <<auth_fail, api_prefix>>
    /\ UnchangedByLimiter

\* The EXPIRE raises (the connection to the cache fails after the INCR):
\* "except Exception: pass".
record_auth_failure_expire_fail ==
    /\ auth.phase = "expire"
    /\ auth' = [auth EXCEPT !.phase = "done"]
    /\ UNCHANGED <<auth_fail, auth_ttl, api_prefix>>
    /\ UnchangedByLimiter

\* 15 minutes pass: the counters that carry an expiry are gone.
auth_tick ==
    /\ \E ip \in Ips : auth_ttl[ip] > 0
    /\ auth_fail' = [ip \in Ips |-> IF auth_ttl[ip] > 0 THEN 0 ELSE auth_fail[ip]]
    /\ auth_ttl' = [ip \in Ips |-> 0]
    /\ UNCHANGED <<auth, api_prefix>>
    /\ UnchangedByLimiter

NextLimiter ==
    \/ auth_request
    \/ check_auth_rate_limit
    \/ get_current_account_incr
    \/ record_auth_failure_expire
    \/ record_auth_failure_expire_fail
    \/ auth_return
    \/ auth_tick

\* Time passes: a counter that carries an expiry does expire.
SpecLimiter == InitAuth /\ [][NextLimiter]_vars /\ WF_vars(auth_tick)

\* ------------------------------------------------------------------ claims

Done(p) == pc[p] = "done"
Ok(p) == Done(p) /\ res[p].status = "ok"

\* C1: in every reachable state every account's stored balance is >= 0 and
\* get_balance returns a value >= 0, whatever credits and debits were applied.
C1_BalanceNonNegative ==
    \A u \in Users : user_data[u].balance_usd >= 0 /\ get_balance(u) >= 0

\* A debit larger than the balance was refused while another debit went
\* through and emptied an account.
C1_Witness ==
    \E p, q \in Procs :
        /\ p # q
        /\ Done(p) /\ res[p].status = "insufficient_balance"
        /\ Ok(q) /\ req[q].amount < 0 /\ res[q].balance = 0

\* C2: in every reachable state the balance of each account equals the sum
\* of amount_usd over the transactions recorded for it, also after more
\* mutations than the stored history retains.
C2_BalanceEqualsSumOfTransactions ==
    \A u \in Users : get_balance(u) = SumAmounts(transactions[u])

\* C3: of two update_balance calls with the same idempotency key (neither
\* refused for insufficient balance) exactly one is applied and the other
\* fails with DuplicatePayment; one mutation is applied under the key.
C3_SameKeyAppliedOnce ==
    \A p, q \in Procs :
        (/\ p # q /\ Done(p) /\ Done(q)
         /\ req[p].key = req[q].key
         /\ res[p].status # "insufficient_balance"
         /\ res[q].status # "insufficient_balance")
        => /\ applied[req[p].key] = 1
           /\ \/ res[p].status = "ok" /\ res[q].status = "duplicate_payment"
              \/ res[q].status = "ok" /\ res[p].status = "duplicate_payment"

\* C4: two usage debits c1, c2 with distinct keys on one account of balance
\* b, with c1 <= b, c2 <= b and c1 + c2 > b: exactly one succeeds, the other
\* fails with InsufficientBalance(current = balance left by the winner,
\* required = its own cost).
C4_OneDebitWins ==
    \A p, q \in Procs :
        (/\ p # q /\ Done(p) /\ Done(q)
         /\ req[p].user = req[q].user
         /\ req[p].key # req[q].key
         /\ req[p].amount < 0 /\ req[q].amount < 0
         /\ 0 - req[p].amount <= initial[req[p].user]
         /\ 0 - req[q].amount <= initial[req[p].user]
         /\ 0 - req[p].amount - req[q].amount > initial[req[p].user])
        => \/ /\ res[p].status = "ok"
              /\ res[q].status = "insufficient_balance"
              /\ res[q].balance = initial[req[p].user] + req[p].amount
              /\ res[q].required = 0 - req[q].amount
              /\ get_balance(req[p].user) = initial[req[p].user] + req[p].amount
           \/ /\ res[q].status = "ok"
              /\ res[p].status = "insufficient_balance"
              /\ res[p].balance = initial[req[p].user] + req[q].amount
              /\ res[p].required = 0 - req[p].amount
              /\ get_balance(req[p].user) = initial[req[p].user] + req[q].amount

\* Both debits have run on the same account: one won, one was refused.
C4_Witness ==
    \E p, q \in Procs :
        /\ p # q
        /\ req[p].user = req[q].user /\ req[p].key # req[q].key
        /\ 0 - req[p].amount <= initial[req[p].user]
        /\ 0 - req[q].amount <= initial[req[p].user]
        /\ Ok(p) /\ req[p].amount < 0
        /\ Done(q) /\ req[q].amount < 0 /\ res[q].status = "insufficient_balance"

\* C5: two calls with different keys on one account whose deltas keep the
\* balance non-negative in either order both succeed, both transactions are
\* recorded and the final balance is initial + d1 + d2.
C5_NoLostUpdate ==
    \A p, q \in Procs :
        (/\ p # q /\ Done(p) /\ Done(q)
         /\ req[p].user = req[q].user
         /\ req[p].key # req[q].key
         /\ initial[req[p].user] + req[p].amount >= 0
         /\ initial[req[p].user] + req[q].amount >= 0
         /\ initial[req[p].user] + req[p].amount + req[q].amount >= 0)
        => /\ res[p].status = "ok" /\ res[q].status = "ok"
           /\ get_balance(req[p].user)
                = initial[req[p].user] + req[p].amount + req[q].amount
           /\ LET l == transactions[req[p].user]
                  n == Len(l)
              IN  /\ n >= 2
                  /\ \/ l[n - 1].amount_usd = req[p].amount /\ l[n].amount_usd = req[q].amount
                     \/ l[n - 1].amount_usd = req[q].amount /\ l[n].amount_usd = req[p].amount
           /\ applied[req[p].key] = 1 /\ applied[req[q].key] = 1

\* Both calls were in flight together (the second reply still reports the
\* balance the first one left) and both have been applied.
C5_Witness ==
    \E p, q \in Procs :
        /\ p # q /\ Ok(p) /\ Ok(q)
        /\ req[p].user = req[q].user /\ req[p].key # req[q].key
        /\ req[p].amount > 0 /\ req[q].amount < 0
        /\ res[q].balance = initial[req[p].user] + req[p].amount + req[q].amount
        /\ idempotency[req[p].key] > 0 /\ idempotency[req[q].key] > 0

\* C10: the card adapter's verify_webhook returns true if and only if the
\* header carries both ts and h1, |now - ts| is at most 5 minutes and h1 is
\* the HMAC-SHA256 of "<ts>:<raw body>" under the configured secret, that is
\* exactly for the headers create_signed_webhook builds with that secret for
\* this body and a timestamp inside the window; a missing ts, an expired ts
\* or a MAC made with another secret gives false.
C10_VerifyWebhookIff ==
    vw.result # "none" =>
        /\ vw.result = "true"
             <=> \E t \in Times :
                    /\ Abs(vw.now - t) <= ReplayWindow
                    /\ vw.sig = create_signed_webhook(WebhookSecret, t, vw.body)
        /\ ~HasPart(vw.sig, "ts") => vw.result = "false"
        /\ ~HasPart(vw.sig, "h1") => vw.result = "false"
        /\ (HasPart(vw.sig, "ts") /\ Abs(vw.now - PartValue(vw.sig, "ts")) > ReplayWindow)
              => vw.result = "false"
        /\ (\E t \in Times : vw.sig = create_signed_webhook("wrong_secret", t, vw.body))
              => vw.result = "false"

\* A header signed with the configured secret exactly 5 minutes ago has been
\* accepted.
C10_Witness ==
    /\ vw.result = "true"
    /\ Abs(vw.now - PartValue(vw.sig, "ts")) = ReplayWindow

\* A delivery fails verification when its header is not the one the provider
\* builds with the configured secret for this body and a timestamp within the
\* replay window.
FailsVerification(w) ==
    ~\E t \in Times :
        /\ Abs(w.now - t) <= ReplayWindow
        /\ w.sig = create_signed_webhook(WebhookSecret, t, BodyOf(w.event))

\* C9: a card webhook (with a parseable body) whose signature fails
\* verification is answered with HTTP 200, status "error", message "Invalid
\* signature", and the step that handles it writes nothing to the ledger and
\* changes no balance.
C9_ForgedWebhookRejected ==
    [][(wh.phase = "received" /\ wh.json_ok /\ FailsVerification(wh)
            /\ wh'.phase = "done")
        => /\ wh'.response = [code |-> 200, status |-> "error",
                              message |-> "Invalid signature"]
           /\ UNCHANGED <<user_data, transactions, idempotency, applied>>]_vars

\* A completed-payment event with one byte of h1 flipped has been answered
\* with the error body, while the account it names holds an untouched balance.
C9_Witness ==
    /\ wh.phase = "done"
    /\ wh.json_ok
    /\ wh.event = 1
    /\ wh.now = 0
    /\ HasPart(wh.sig, "h1") /\ ~PartValue(wh.sig, "h1").intact
    /\ wh.response.status = "error"
    /\ get_balance(1) = initial[1]

\* C6: however often the same verified event is delivered, it accounts for
\* exactly one ledger transaction: once a verified delivery of a crediting or
\* refunding event has been answered with 200, exactly one mutation has been
\* applied under the event's idempotency key.
C6_ReplayAppliesOnce ==
    (/\ wh.phase = "done"
     /\ wh.json_ok
     /\ ~FailsVerification(wh)
     /\ PaddleRequest(wh.event) # NoReq
     /\ wh.response.code = 200)
        => applied[PaddleRequest(wh.event).key] = 1

\* C7: when the wallet completion callback has been delivered twice with the
\* same charge_id and both deliveries have finished, exactly one TOPUP has
\* been credited under the charge, and ProcessedEvent[charge_id] is set for
\* as long as the credit's own marker is.
C7_ChargeCreditedOnce ==
    \A p, q \in Procs :
        (/\ p # q
         /\ pc[p] = "done" /\ pc[q] = "done"
         /\ ctx[p].kind = "stars" /\ ctx[q].kind = "stars"
         /\ ctx[p].charge = ctx[q].charge)
            => /\ applied[ChargeKey(ctx[p].charge)] = 1
               /\ idempotency[ChargeKey(ctx[p].charge)] > 0
                     => stars_processed[ctx[p].charge] > 0

\* C11: process_webhook of the adapter mutates no balance for an event
\* unless the event's signature verifies (it is the HMAC of the event's raw
\* body under the configured secret), and an event whose signature does not
\* verify ends in InvalidSignature with the store untouched.
C11_VerifyBeforeMutation ==
    [][(ls.phase = "received" /\ ls'.phase = "done")
        => LET verified == /\ ls.secret_set
                           /\ ls.signature.hex = Hmac(LsWebhookSecret, BodyOf(ls.event))
           IN  /\ verified \/ UNCHANGED <<user_data, transactions, idempotency, applied>>
               /\ ~verified => ls'.outcome = "invalid_signature"]_vars

\* An order that would be credited arrived with the signature of another
\* secret at an adapter that has a balance service, and was refused.
C11_Witness ==
    /\ ls.phase = "done"
    /\ ls.event = 1
    /\ ls.has_balance_service /\ ls.secret_set
    /\ ls.signature.hex = Hmac("wrong_secret", BodyOf(1))
    /\ ls.outcome = "invalid_signature"

C13_RevokedKeyRejected ==
    \A p \in Procs :
        (pc[p] = "done" /\ kc[p].op = "verify" /\ kc[p].was_revoked)
            => kc[p].result = NoAccount

\* C14: verify_key of a raw key that create_api_key returned, and that
\* nobody has revoked, returns the owning account and the scopes given at
\* creation.
C14_CreatedKeyVerifies ==
    \A p \in Procs :
        (/\ pc[p] = "done" /\ kc[p].op = "verify"
         /\ kc[p].was_active)
            => \A r \in KeyRows(api_keys, kc[p].key_prefix, kc[p].key_secret) :
                  r.is_active
                      => kc[p].result = [account |-> r.account_id, scopes |-> r.scopes]

C16_RefundRecordedAsRefund ==
    [][(/\ wh.phase = "received" /\ wh'.phase = "done"
        /\ wh.json_ok
        /\ verify_webhook(wh.sig, BodyOf(wh.event), wh.now)
        /\ PaddleEvent(wh.event).event_type = "transaction.refunded"
        /\ PaddleEvent(wh.event).account_ref # 0
        /\ RefundKey(wh.event) \notin LedgerKeys(ledger)
        /\ ledger.balance[PaddleEvent(wh.event).account_ref] >= PaddleEvent(wh.event).amount)
        => LET u == PaddleEvent(wh.event).account_ref
               r == PaddleEvent(wh.event).amount
           IN  /\ ledger'.transactions[u] =
                     Append(ledger.transactions[u],
                            [amount_usd |-> 0 - r, type |-> "refund",
                             idempotency_key |-> RefundKey(wh.event)])
               /\ ledger'.balance[u] = ledger.balance[u] - r]_vars

\* C19: a verified card webhook whose idempotency key is already held by the
\* balance store is answered with HTTP 200 and status "ignored", and leaves
\* balances, transactions and markers as they were.
C19_DuplicateWebhookIgnored ==
    [][(/\ wh.phase = "received" /\ wh'.phase = "done"
        /\ wh.json_ok
        /\ verify_webhook(wh.sig, BodyOf(wh.event), wh.now)
        /\ PaddleEvent(wh.event).account_ref # 0
        /\ PaddleEvent(wh.event).event_type
               \in {"transaction.completed", "transaction.refunded"}
        /\ LET ev == PaddleEvent(wh.event)
           IN  idempotency[IF ev.event_type = "transaction.refunded"
                           THEN RefundKey(wh.event)
                           ELSE IF ev.custom_key # NoKey THEN ev.custom_key
                           ELSE EvtKey(wh.event)] > 0)
        => /\ wh'.response.code = 200
           /\ wh'.response.status = "ignored"
           /\ UNCHANGED <<user_data, transactions, idempotency, applied>>]_vars

\* The completed event that carries its own key has been delivered again
\* while its marker is held, and has been answered as ignored.
C19_Witness ==
    /\ wh.phase = "done"
    /\ wh.json_ok
    /\ wh.event = 1
    /\ ~FailsVerification(wh)
    /\ idempotency[<<"key", 1>>] > 0
    /\ applied[<<"key", 1>>] = 1
    /\ wh.response = [code |-> 200, status |-> "ignored",
                      message |-> "Event already processed or not applicable"]

\* C20: the wallet completion handler credits before it cleans up: when it
\* deletes a PendingPayment entry the credit of that charge has been applied
\* and ProcessedEvent[charge_id] is set, and when it sets
\* ProcessedEvent[charge_id] the credit has been applied.
C20_CreditBeforeCleanup ==
    [][\A p \in Procs :
         LET c == ctx[p].charge
         IN  /\ (/\ pc[p] = "stars_delete" /\ pc'[p] = "stars_engine"
                 /\ pending_stars[ctx[p].payload] # NoPending
                 /\ pending_stars'[ctx[p].payload] = NoPending)
                    => /\ applied[ChargeKey(c)] >= 1
                       /\ stars_processed[c] > 0
             /\ (/\ pc[p] = "stars_setex" /\ pc'[p] = "stars_answer"
                 /\ stars_processed'[c] > 0)
                    => applied[ChargeKey(c)] >= 1]_vars

\* C21: the credit of a wallet completion is one TOPUP to the paying user under
\* the charge id, and its amount is the usd amount of the PendingPayment entry
\* the callback found for the invoice payload, or total_stars / 50 when it
\* found none.
C21_CreditedAmount ==
    [][\A p \in Procs :
         (pc[p] = "stars_engine" /\ pc'[p] = "stars_setex")
            => /\ transactions'[ctx[p].user] =
                     PushTrim(transactions[ctx[p].user],
                              [amount_usd |-> ctx[p].usd, type |-> "topup"])
               /\ user_data'[ctx[p].user] =
                     UserRecord(get_balance(ctx[p].user) + ctx[p].usd)
               /\ applied'[ChargeKey(ctx[p].charge)] > applied[ChargeKey(ctx[p].charge)]
                    \/ applied[ChargeKey(ctx[p].charge)] = MaxApplied]_vars

\* C22: the pre-checkout callback approves if and only if the payload has the
\* topup form, a pending payment is stored for it and that payment's account
\* is the paying user; approving or rejecting, it writes neither balances,
\* histories, markers nor the ledger, and leaves the pending payments as they
\* are.
C22_PreCheckoutDecision ==
    [][tg'.answer # tg.answer /\ tg'.answer # NoAnswer
         => /\ tg'.answer.ok
                 <=> /\ IsTopupPayload(tg'.answer.payload)
                     /\ pending_stars[tg'.answer.payload] # NoPending
                     /\ pending_stars[tg'.answer.payload].user_id = tg'.answer.user
            /\ UNCHANGED <<storeVars, ledger, pending_stars, stars_processed>>]_vars

\* An approved query, and with it a pending payment of another account that
\* a query of this payer would have to be rejected for.
C22_Witness ==
    /\ tg.answer.ok
    /\ pending_stars[tg.answer.payload].user_id = tg.answer.user
    /\ \E pl \in Payloads : /\ pending_stars[pl] # NoPending
                            /\ pending_stars[pl].user_id # tg.answer.user

\* C23: every checkout creation produces a payload of its own, also for one
\* account within one second: no two invoices carry the same payload, so the
\* pending payment of one is never replaced by that of another.
C23_DistinctPayloads ==
    \A i, j \in tg.invoices : i # j => i.payload # j.payload

\* C24: when every attempt of a provider request fails with a retryable
\* failure, the request is sent exactly max_retries times with one sleep
\* between consecutive attempts and ends with ProviderError max_retries; no
\* request is ever sent more than max_retries times.
C24_RetriesBounded ==
    /\ Len(http.responses) <= max_retries
    /\ http.phase = "sending" => Len(http.sleeps) = Len(http.responses)
    /\ (/\ http.phase \in {"returned", "raised"}
        /\ \A i \in 1..Len(http.responses) : Retryable(http.responses[i]))
          => /\ http.phase = "raised"
             /\ http.code = "max_retries"
             /\ Len(http.responses) = max_retries
             /\ Len(http.sleeps) = max_retries - 1

\* A request given up after a rate limit, a server error and a network error.
C24_Witness ==
    /\ http.phase = "raised"
    /\ http.code = "max_retries"
    /\ {http.responses[i].status : i \in 1..Len(http.responses)} = {0, 429, 500}

\* C25: when a 429 with a Retry-After value is followed by a successful
\* attempt, the request was sent exactly twice, the sleep between the two
\* attempts is the Retry-After value, the call returns the successful result,
\* and nothing is sent after the first success.
C25_RetryAfterHonoured ==
    /\ \A i \in 1..Len(http.responses) :
         http.responses[i].status = 200
            => i = Len(http.responses) /\ http.phase = "returned" /\ http.code = "ok"
    /\ (/\ Len(http.responses) >= 2
        /\ http.responses[1].status = 429
        /\ http.responses[1].retry_after # NoHeader
        /\ http.responses[2].status = 200)
          => /\ Len(http.responses) = 2
             /\ http.sleeps = <<SecondMs * http.responses[1].retry_after>>

\* The provider answered 429 with Retry-After 1, then 200.
C25_Witness ==
    /\ http.phase = "returned"
    /\ Len(http.responses) = 2
    /\ http.responses[1] = [status |-> 429, retry_after |-> 1]

C26_CoreFunctionsDegraded ==
    /\ \A p \in Procs :
         (/\ pc[p] = "done" /\ kc[p].op = "verify" /\ kc[p].was_active
          /\ Len(Split(kc[p].raw_key)) = 3)
            => \A r \in KeyRows(api_keys, kc[p].key_prefix, kc[p].key_secret) :
                  r.is_active
                      => kc[p].result = [account |-> r.account_id, scopes |-> r.scopes]
    /\ \A p \in Procs :
         (pc[p] = "done" /\ kc[p].op = "create")
            => \E r \in KeyRows(api_keys, kc[p].prefix, kc[p].secret) :
                  r.account_id = kc[p].account_id
    /\ \A p \in Procs :
         (pc[p] = "done" /\ kc[p].op = "revoke" /\ kc[p].row # NoRow)
            => [kc[p].row EXCEPT !.is_active = FALSE] \in api_keys
    /\ auth.status # 429

C29_OneActiveRowPerPrefix ==
    \A pf \in Prefixes : Cardinality(ActiveRows(api_keys, pf)) <= 1

\* C30: whatever keys have been created, verified and revoked, nothing stored
\* holds a raw secret: a row holds its prefix and the HMAC of its secret
\* under the server secret and no further field, an audit entry's metadata
\* holds the label, the prefix and the scopes (or the prefix alone), and a
\* cache entry holds the account, the scopes and that HMAC.
C30_NoRawSecretStored ==
    /\ \A r \in api_keys :
         /\ DOMAIN r = {"key_prefix", "key_hash", "account_id", "scopes", "is_active"}
         /\ r.key_prefix \in Prefixes
         /\ \E se \in KeySecrets : r.key_hash = Hmac(SERVER_SECRET, se)
    /\ \A e \in audit_log :
         /\ DOMAIN e = {"account_id", "action", "metadata"}
         /\ DOMAIN e.metadata \subseteq {"label", "prefix", "scopes"}
         /\ e.metadata.prefix \in Prefixes
         /\ e.action = "KEY_CREATED" => e.metadata.label = "default"
    /\ \A x \in Prefixes :
         api_prefix[x].present
            => /\ DOMAIN api_prefix[x] = {"present", "account_id", "scopes", "key_hash"}
               /\ \E se \in KeySecrets : api_prefix[x].key_hash = Hmac(SERVER_SECRET, se)

\* A key has been created, cached, verified from the table after its cache
\* entry expired, and another has been revoked.
C30_Witness ==
    /\ \E r \in api_keys : r.is_active
    /\ \E r \in api_keys : ~r.is_active
    /\ \E e \in audit_log : e.action = "KEY_REVOKED"
    /\ \E x \in Prefixes : api_prefix[x].present
    /\ \E p \in Procs : pc[p] = "done" /\ kc[p].op = "verify" /\ kc[p].result # NoAccount

\* C31: the transaction log of an account is append-only: with every step
\* the list recorded so far is kept, entry by entry and in order, as the
\* beginning of the list of the next state, for any number of mutations.
C31_TransactionLogAppendOnly ==
    [][\A u \in Users :
         /\ Len(transactions[u]) <= Len(transactions'[u])
         /\ SubSeq(transactions'[u], 1, Len(transactions[u])) = transactions[u]]_vars

C33_UsageLogPerCharge ==
    [][\A u \in Users :
         LET charged == /\ usage' # usage
                        /\ usage'.outcome.status = "ok"
                        /\ usage'.outcome.telegram_id = u
         IN  /\ IF charged
                THEN ledger'.usage_logs[u] =
                        Append(ledger.usage_logs[u],
                               [product_id |-> usage'.outcome.product_id,
                                units_consumed |-> usage'.outcome.units,
                                cost_usd |-> usage'.outcome.cost])
                ELSE ledger'.usage_logs[u] = ledger.usage_logs[u]
             /\ SumCost(ledger'.usage_logs[u])
                    = SumUsageDebits(ledger'.transactions[u])]_vars

\* C34: usd_to_stars(x) is 50 * x rounded to the nearest integer and
\* stars_to_usd(s) is s / 50, so that converting a non-negative multiple of
\* 0.02 dollars to stars and back gives the amount itself
\* (1 -> 50 -> 1, 5 -> 250 -> 5, 20 -> 1000 -> 20).
C34_ConversionRoundTrip ==
    /\ conv.x # NoValue =>
          /\ 2 * conv.stars - conv.x \in {0 - 1, 0, 1}
          /\ conv.x % 2 = 1 => conv.stars % 2 = 0
    /\ conv.phase = "usd" => StarsPerUsd * conv.usd = CentsPerUsd * conv.stars
    /\ (conv.phase = "usd" /\ conv.x # NoValue /\ conv.x % 2 = 0) => conv.usd = conv.x
    /\ (conv.phase = "usd" /\ conv.x = 100) => conv.stars = 50
    /\ (conv.phase = "usd" /\ conv.x = 500) => conv.stars = 250
    /\ (conv.phase = "usd" /\ conv.x = 2000) => conv.stars = 1000

\* Twenty dollars went to 1000 stars and came back as twenty dollars.
C34_Witness ==
    /\ conv.phase = "usd" /\ conv.x = 2000 /\ conv.stars = 1000 /\ conv.usd = 2000

\* C35: get_or_create_user, regenerate_api_key and the route's
\* create_api_key never change or lose balance_usd: when the two callers,
\* one of them rewriting the user record, have finished in whatever
\* interleaving, every balance is the initial balance plus the deltas that
\* update_balance applied to it.
C35_RewriteKeepsBalance ==
    ((\A p \in Procs : pc[p] = "done") /\ (\E q \in Procs : req[q].type \in RewriteOps))
        => \A u \in Users :
              get_balance(u) = initial[u] + AppliedDelta(1, u) + AppliedDelta(2, u)

\* C36: whenever no create_api_key, verify_key or revoke_key call is in
\* progress, every api_prefix cache entry belongs to a row of the key table
\* that is active and has the entry's hash and account, whatever the
\* interleaving of a verify_key on the cache-miss path with a revoke_key of
\* the same prefix was.
C36_CacheEntryHasActiveRow ==
    (\A p \in Procs : pc[p] \in {"idle", "done"})
        => \A x \in Prefixes :
              api_prefix[x].present
                 => \E r \in api_keys :
                       /\ r.key_prefix = x
                       /\ r.is_active
                       /\ r.key_hash = api_prefix[x].key_hash
                       /\ r.account_id = api_prefix[x].account_id

\* C37: a refresh token is single-use: at most one /refresh with a token
\* succeeds, also of two requests running together; a /refresh that starts
\* after a successful refresh or a logout with its token is rejected; and
\* the token a refresh issued is accepted: it is in the map until it is used,
\* and a /refresh with a token that was valid when the request started
\* fails only if the token was used or logged out meanwhile.
C37_RefreshTokenSingleUse ==
    /\ \A t \in Tokens : rr.succeeded[t] <= 1
    /\ \A p \in Procs :
          LET c == rr.call[p]
          IN  (c.phase = "done" /\ c.op = "refresh")
                 => /\ c.was_retired => c.status # 200
                    /\ c.status = 200 =>
                          \/ rr.retired[c.new_token]
                          \/ /\ refresh_tokens[hash_refresh_token(c.new_token)].present
                             /\ refresh_tokens[hash_refresh_token(c.new_token)].account_id
                                   = c.token_data.account_id
                    /\ (c.was_valid /\ c.status # 200)
                          => rr.retired[c.token]

\* Two requests with one token were in flight together: one got the new
\* pair, the other failed; and a later request with the new token succeeded.
C37_Witness ==
    \E p, q \in Procs :
        /\ p # q
        /\ rr.call[p].phase = "done" /\ rr.call[p].op = "refresh"
        /\ rr.call[q].phase = "done" /\ rr.call[q].op = "refresh"
        /\ rr.call[p].token = rr.call[q].token
        /\ rr.call[p].status = 200 /\ rr.call[q].status = 500
        /\ rr.call[q].was_valid /\ ~rr.call[q].was_retired

\* C38: a debit refused with InsufficientBalance does not consume its
\* idempotency key: after it check_idempotency of the key returns none and
\* the store is as before; and a retry of a refused debit under the same
\* key, once the balance covers it, succeeds and is applied once.
C38_RefusedDebitKeepsKey ==
    [][\A p \in Procs :
         (pc[p] = "pending" /\ pc'[p] = "done")
            => LET k == req[p].key
                   u == req[p].user
               IN  /\ res'[p].status = "insufficient_balance"
                        => /\ idempotency'[k] = 0
                           /\ UNCHANGED <<user_data, transactions, idempotency, applied>>
                   /\ (/\ req[p].amount < 0
                        /\ \E q \in Procs \ {p} :
                              /\ pc[q] = "done"
                              /\ res[q].status = "insufficient_balance"
                              /\ req[q].key = k /\ req[q].user = u
                        /\ idempotency[k] = 0
                        /\ get_balance(u) + req[p].amount >= 0)
                        => /\ res'[p].status = "ok"
                           /\ user_data'[u].balance_usd = get_balance(u) + req[p].amount
                           /\ Len(transactions'[u]) <= Len(transactions[u]) + 1
                           /\ applied[k] < MaxApplied => applied'[k] = applied[k] + 1
                           /\ idempotency'[k] > 0]_vars

\* A debit was refused for lack of funds, the account was credited, and the
\* retry under the same key has been applied, once.
C38_Witness ==
    \E p, q \in Procs :
        /\ p # q
        /\ pc[p] = "done" /\ res[p].status = "insufficient_balance"
        /\ pc[q] = "done" /\ res[q].status = "ok"
        /\ req[q].key = req[p].key /\ req[q].user = req[p].user
        /\ req[q].amount = req[p].amount
        /\ applied[req[p].key] = 1 /\ idempotency[req[p].key] > 0

\* C39: an address blocked by the auth-failure limiter is always eventually
\* unblocked: once record_auth_failure has returned, a counter that exists
\* carries its 15-minute expiry, set with the first failure of the window;
\* an attempt refused with 429 changes neither the counter nor the expiry.
C39_BlockedEventuallyUnblocked ==
    /\ [](\A ip \in Ips :
            (auth.phase # "expire" /\ auth_fail[ip] > 0) => auth_ttl[ip] > 0)
    /\ [][(auth.phase = "check" /\ auth'.status = 429)
            => UNCHANGED <<auth_fail, auth_ttl>>]_vars
    /\ \A ip \in Ips : Blocked(ip) ~> ~Blocked(ip)

============================================================================
